---------------------------- MODULE Spec2Model ----------------------------
(***************************************************************************)
(* A model of open-factura-ec: the access key (clave de acceso) and its    *)
(* Modulo 11 check digit (src/utils/utils.ts), the invoice document        *)
(* builder with its validations (src/services/generateInvoice.ts), the     *)
(* signing of the document (src/services/signing.ts), the reception and    *)
(* authorization services of the SRI (src/services/reception.ts,           *)
(* src/services/authorization.ts) and the OpenFactura facade               *)
(* (src/index.ts).                                                         *)
(*                                                                         *)
(* A JavaScript string is a sequence of one-character strings; a number is *)
(* the IEEE-754 double it is, kept as a decimal and its rounding error.    *)
(***************************************************************************)
EXTENDS Integers, Sequences, FiniteSets, TLC

VARIABLES
  parts,          \* the AccessKeyParts argument of getAccessKey
  keyResult,      \* what getAccessKey(parts) returned or threw
  digitResult,    \* a direct getCheckDigit call: its argument and what it returned
  invoice,        \* the caller's Invoice object
  codigoNumerico, \* the caller's numeric code argument
  genResult,      \* what a direct generateInvoiceXML call returned or threw
  genAgain,       \* what a second such call with the same arguments returned or threw
  config,         \* the OpenFacturaConfig of the OpenFactura instance
  container,      \* what the file system holds at config.p12Path
  call,           \* the createAndSignInvoice call: where it is, what it settled to
  console,        \* what has been written to the console
  signers,        \* the signXML invocations called directly, each with its locals
  engine,         \* the invocation whose engine Application.setEngine was last given, if any
  remote,         \* the call to a service of the SRI: where it is, what it settled to
  requests        \* the HTTP requests issued, in order

vars == <<parts, keyResult, digitResult, invoice, codigoNumerico, genResult,
          genAgain, config, container, call, console, signers, engine,
          remote, requests>>

(***************************************************************************)
(* Strings                                                                 *)
(***************************************************************************)
DigitChars == <<"0", "1", "2", "3", "4", "5", "6", "7", "8", "9">>

IsDigit(ch) == \E d \in 1..10 : DigitChars[d] = ch

DigitVal(ch) == (CHOOSE d \in 1..10 : DigitChars[d] = ch) - 1

AllDigits(s) == \A i \in 1..Len(s) : IsDigit(s[i])

RECURSIVE Zeros(_)
Zeros(n) == IF n <= 0 THEN <<>> ELSE <<"0">> \o Zeros(n - 1)

\* String.prototype.padStart(targetLength, '0'): a string already that long
\* is returned unchanged, never cut.
PadStart(s, n) == IF Len(s) >= n THEN s ELSE Zeros(n - Len(s)) \o s

\* String.prototype.split(sep) for a one-character separator: the pieces
\* between the separators, empty pieces kept.
RECURSIVE SplitFrom(_, _, _, _)
SplitFrom(s, sep, i, cur) ==
  IF i > Len(s) THEN <<cur>>
  ELSE IF s[i] = sep THEN <<cur>> \o SplitFrom(s, sep, i + 1, <<>>)
  ELSE SplitFrom(s, sep, i + 1, Append(cur, s[i]))

Split(s, sep) == SplitFrom(s, sep, 1, <<>>)

\* Array.prototype.join(''): the concatenation of the pieces.
RECURSIVE Join(_)
Join(ps) == IF ps = <<>> THEN <<>> ELSE Head(ps) \o Join(Tail(ps))

\* The decimal digits of a natural number.
RECURSIVE NatToStr(_)
NatToStr(n) ==
  IF n < 10 THEN <<DigitChars[n + 1]>>
  ELSE NatToStr(n \div 10) \o <<DigitChars[(n % 10) + 1]>>

(***************************************************************************)
(* The numbers of getCheckDigit: an integer or NaN.  NaN is what parseInt  *)
(* gives for a character that is no digit (and for the undefined at an     *)
(* index past the end of the string); it absorbs +, * and %, and it is     *)
(* equal to nothing.                                                       *)
(***************************************************************************)
NaN == [nan |-> TRUE, v |-> 0]

Num(n) == [nan |-> FALSE, v |-> n]

NumAdd(a, b) == IF a.nan \/ b.nan THEN NaN ELSE Num(a.v + b.v)

NumSub(a, b) == IF a.nan \/ b.nan THEN NaN ELSE Num(a.v - b.v)

NumMul(a, b) == IF a.nan \/ b.nan THEN NaN ELSE Num(a.v * b.v)

NumMod(a, m) == IF a.nan THEN NaN ELSE Num(a.v % m)

\* a === n for an integer n
NumIs(a, n) == ~a.nan /\ a.v = n

\* parseInt(key[i], 10) for the 0-based index i
ParseIntAt(s, i) ==
  IF i + 1 <= Len(s) /\ IsDigit(s[i + 1]) THEN Num(DigitVal(s[i + 1])) ELSE NaN

\* `${n}`: the string of a number
NumToStr(a) == IF a.nan THEN <<"N", "a", "N">> ELSE NatToStr(a.v)

(***************************************************************************)
(* getCheckDigit                                                           *)
(***************************************************************************)
KeyLen == 48

\* weights with the cycle started one place late
weightsShifted ==
  <<6, 5, 4, 3, 2, 7, 6, 5, 4, 3, 2, 7, 6, 5, 4, 3, 2, 7, 6, 5, 4, 3, 2, 7,
    6, 5, 4, 3, 2, 7, 6, 5, 4, 3, 2, 7, 6, 5, 4, 3, 2, 7, 6, 5, 4, 3, 2, 7>>

weights ==
  <<7, 6, 5, 4, 3, 2, 7, 6, 5, 4, 3, 2, 7, 6, 5, 4, 3, 2, 7, 6, 5, 4, 3, 2,
    7, 6, 5, 4, 3, 2, 7, 6, 5, 4, 3, 2, 7, 6, 5, 4, 3, 2, 7, 6, 5, 4, 3, 2>>

\* the loop of getCheckDigit, sum += parseInt(key[i], 10) * weights[i], over
\* the 0-based indices lo..hi.  The terms are added in halves (the same sum,
\* + on integers and NaN being associative), which keeps the evaluation flat.
RECURSIVE WeightedSum(_, _, _)
WeightedSum(s, lo, hi) ==
  IF lo > hi THEN Num(0)
  ELSE IF lo = hi THEN NumMul(ParseIntAt(s, lo), Num(weights[lo + 1]))
  ELSE LET mid == (lo + hi) \div 2
       IN  NumAdd(WeightedSum(s, lo, mid), WeightedSum(s, mid + 1, hi))

\* MapCheckDigit without its second special case
MapCheckDigitNoTen(checkDigit) ==
  IF NumIs(checkDigit, 11) THEN Num(0) ELSE checkDigit

\* the two special cases and the default of getCheckDigit's result
MapCheckDigit(checkDigit) ==
  IF NumIs(checkDigit, 11) THEN Num(0)
  ELSE IF NumIs(checkDigit, 10) THEN Num(1)
  ELSE checkDigit

getCheckDigit(s) ==
  LET sum == WeightedSum(s, 0, KeyLen - 1)
      remainder == NumMod(sum, 11)
      checkDigit == NumSub(Num(11), remainder)
  IN  MapCheckDigit(checkDigit)

(***************************************************************************)
(* getAccessKey                                                            *)
(***************************************************************************)
ErrDate == "El formato de la fecha debe ser dd/mm/yyyy"

ErrLength == "Error de longitud al generar la clave de acceso"

Ok(val) == [ok |-> TRUE, val |-> val, err |-> ""]

Throw(msg) == [ok |-> FALSE, val |-> <<>>, err |-> msg]

NotCalled == [ok |-> FALSE, val |-> <<>>, err |-> "not called"]

Called(r) == r # NotCalled

\* the array joined into keyWithoutCheckDigit
KeyPieces(p, formattedDate) ==
  << formattedDate,
     PadStart(p.voucherType, 2),
     p.ruc,
     PadStart(p.environment, 1),
     PadStart(p.series, 6),
     PadStart(p.sequence, 9),
     PadStart(p.numericCode, 8),
     PadStart(p.emissionType, 1) >>

\* a getAccessKey without the check of the length
getAccessKeyAnyLength(p) ==
  LET dateParts == Split(p.date, "/") IN
  IF Len(dateParts) # 3 THEN Throw(ErrDate)
  ELSE
    LET formattedDate == dateParts[1] \o dateParts[2] \o dateParts[3]
        keyWithoutCheckDigit == Join(KeyPieces(p, formattedDate))
    IN  Ok(keyWithoutCheckDigit \o NumToStr(getCheckDigit(keyWithoutCheckDigit)))

\* a getAccessKey that checks the length before the date
getAccessKeyLengthFirst(p) ==
  LET dateParts == Split(p.date, "/")
      keyWithoutCheckDigit ==
        Join(KeyPieces(p, SelectSeq(p.date, LAMBDA c : c # "/")))
  IN  IF Len(keyWithoutCheckDigit) # KeyLen THEN Throw(ErrLength)
      ELSE IF Len(dateParts) # 3 THEN Throw(ErrDate)
      ELSE Ok(keyWithoutCheckDigit \o NumToStr(getCheckDigit(keyWithoutCheckDigit)))

getAccessKey(p) ==
  LET dateParts == Split(p.date, "/") IN
  IF Len(dateParts) # 3 THEN Throw(ErrDate)
  ELSE
    LET formattedDate == dateParts[1] \o dateParts[2] \o dateParts[3]
        keyWithoutCheckDigit == Join(KeyPieces(p, formattedDate))
    IN  IF Len(keyWithoutCheckDigit) # KeyLen THEN Throw(ErrLength)
        ELSE Ok(keyWithoutCheckDigit \o NumToStr(getCheckDigit(keyWithoutCheckDigit)))

(***************************************************************************)
(* The numbers of an invoice.  A JavaScript number is an IEEE-754 double;  *)
(* the amounts of an invoice are decimal literals (JSON), each read as the *)
(* double nearest to it.  The double is kept exactly, as the decimal it    *)
(* stands for plus its binary error:                                       *)
(*                                                                         *)
(*      value = c / 10^s  +  r / (10^s * 2^k)                              *)
(*                                                                         *)
(* with c the decimal in units of 10^-s, k a grid the value lies on (it is *)
(* a multiple of 2^-k) and r the error in units of 1/(10^s * 2^k).  The    *)
(* 53-bit significand itself never appears: only residues modulo small     *)
(* numbers are computed, so every intermediate stays a small integer.      *)
(***************************************************************************)
Precision == 53

RECURSIVE Pow2(_)
Pow2(n) == IF n <= 0 THEN 1 ELSE 2 * Pow2(n - 1)

RECURSIVE Pow10(_)
Pow10(n) == IF n <= 0 THEN 1 ELSE 10 * Pow10(n - 1)

Max(a, b) == IF a >= b THEN a ELSE b

Abs(n) == IF n < 0 THEN -n ELSE n

Sign(n) == IF n < 0 THEN -1 ELSE IF n > 0 THEN 1 ELSE 0

\* (x * 2^k) mod d, by steps that stay small
RECURSIVE MulPow2Mod(_, _, _)
MulPow2Mod(x, k, d) ==
  IF k = 0 THEN x % d
  ELSE IF k >= 6 THEN MulPow2Mod((x * 64) % d, k - 6, d)
  ELSE MulPow2Mod((x * 2) % d, k - 1, d)

\* the binary exponent e of u / den > 0: 2^e <= u / den < 2^(e+1)
RECURSIVE ExpUp(_, _, _)
ExpUp(u, d, e) == IF 2 * d <= u THEN ExpUp(u, 2 * d, e + 1) ELSE e

RECURSIVE ExpDown(_, _, _)
ExpDown(v, den, e) == IF v >= den THEN e ELSE ExpDown(2 * v, den, e - 1)

Exp2(u, den) == IF u >= den THEN ExpUp(u, den, 0) ELSE ExpDown(u, den, 0)

\* Rounding to nearest, ties to even.  n, known by its residues m modulo d
\* and m2 modulo 2d, is rounded to a multiple of d; the result is n - rho.
RoundResidue(m, m2, d) ==
  IF 2 * m < d THEN m
  ELSE IF 2 * m > d THEN m - d
  ELSE IF m2 = m THEN m ELSE m - d

Zero(s) == [c |-> 0, s |-> s, r |-> 0, k |-> 0]

\* the double a decimal literal u / 10^s (u >= 0) is read as
Lit(u, s) ==
  IF u = 0 THEN Zero(s)
  ELSE LET den == Pow10(s)
           k == (Precision - 1) - Exp2(u, den)
           m == MulPow2Mod(u % den, k, den)
           m2 == MulPow2Mod(u % (2 * den), k, 2 * den)
       IN  [c |-> u, s |-> s, r |-> -RoundResidue(m, m2, den), k |-> k]

FIsZero(x) == x.c = 0 /\ x.r = 0

FSign(x) == IF x.c # 0 THEN Sign(x.c) ELSE Sign(x.r)

FNeg(x) == [x EXCEPT !.c = -x.c, !.r = -x.r]

\* Math.abs
FAbs(x) == IF FSign(x) < 0 THEN FNeg(x) ELSE x

\* x + y of two doubles of the same decimal scale, rounded as the machine
\* rounds it
FAdd(x, y) ==
  IF FIsZero(x) THEN y
  ELSE IF FIsZero(y) THEN x
  ELSE
    LET kk == Max(x.k, y.k)
        rr == x.r * Pow2(kk - x.k) + y.r * Pow2(kk - y.k)
        cc == x.c + y.c
        den == Pow10(x.s)
    IN  IF cc = 0 THEN [c |-> 0, s |-> x.s, r |-> rr, k |-> kk]
        ELSE
          LET sg == Sign(cc)
              ca == Abs(cc)
              ra == sg * rr
              e0 == Exp2(ca, den)
              isPow2 == IF e0 >= 0 THEN ca = den * Pow2(e0)
                        ELSE ca * Pow2(-e0) = den
              e == IF ra < 0 /\ isPow2 THEN e0 - 1 ELSE e0
              k2 == (Precision - 1) - e
          IN  IF k2 >= kk THEN [c |-> cc, s |-> x.s, r |-> rr, k |-> kk]
              ELSE
                LET sh == kk - k2
                    d == den * Pow2(sh)
                    m == (MulPow2Mod(ca % d, kk, d) + ra) % d
                    m2 == (MulPow2Mod(ca % (2 * d), kk, 2 * d) + ra) % (2 * d)
                    rho == RoundResidue(m, m2, d)
                IN  [c |-> cc, s |-> x.s, r |-> sg * ((ra - rho) \div Pow2(sh)),
                     k |-> k2]

\* x - y
FSub(x, y) == FAdd(x, FNeg(y))

\* x > y, for two doubles of the same decimal scale
FGt(x, y) ==
  IF x.c # y.c THEN x.c > y.c
  ELSE LET kk == Max(x.k, y.k)
       IN  x.r * Pow2(kk - x.k) > y.r * Pow2(kk - y.k)

\* Number.prototype.toFixed(p): the decimal n / 10^p nearest to the double,
\* the larger n when two are equally near, written with p decimals.
ToFixedUnits(x, p) ==
  LET a == FAbs(x) IN
  IF p >= a.s THEN a.c * Pow10(p - a.s)
  ELSE LET cut == Pow10(a.s - p)
           q == a.c \div cut
           rem == a.c % cut
       IN  IF 2 * rem < cut THEN q
           ELSE IF 2 * rem > cut THEN q + 1
           ELSE IF a.r >= 0 THEN q + 1 ELSE q

ToFixed(x, p) ==
  LET n == ToFixedUnits(x, p)
      digits == PadStart(NatToStr(n), p + 1)
      whole == SubSeq(digits, 1, Len(digits) - p)
      frac == SubSeq(digits, Len(digits) - p + 1, Len(digits))
      sign == IF FSign(x) < 0 /\ n # 0 THEN <<"-">> ELSE <<>>
  IN  sign \o whole \o (IF p = 0 THEN <<>> ELSE <<".">> \o frac)

(***************************************************************************)
(* Optional values: <<>> is undefined, <<v>> is the value v.               *)
(***************************************************************************)
Undefined == <<>>

Some(v) == <<v>>

Present(o) == o # <<>>

\* a test for undefined alone, under which '' counts as a value
TruthyDefined(o) == Present(o)

\* the truthiness of an optional string: undefined and '' are falsy
Truthy(o) == Present(o) /\ o[1] # <<>>

\* the truthiness of an optional number: undefined and 0 are falsy
TruthyNum(o) == Present(o) /\ o[1] # 0

(***************************************************************************)
(* The document: a tree of elements.                                       *)
(***************************************************************************)
Ele(name, kids) == [name |-> name, attrs |-> <<>>, text |-> <<>>, kids |-> kids]

EleAttrs(name, attrs, kids) ==
  [name |-> name, attrs |-> attrs, text |-> <<>>, kids |-> kids]

Txt(name, text) == [name |-> name, attrs |-> <<>>, text |-> text, kids |-> <<>>]

\* an element emitted only under a condition
OptEle(cond, node) == IF cond THEN <<node>> ELSE <<>>

(***************************************************************************)
(* generateInvoiceXML                                                      *)
(***************************************************************************)
ErrNumericCode == "El codigo numerico debe ser un string de 8 digitos numericos"

ErrMissingBlocks == "Faltan bloques obligatorios: infoTributaria, infoFactura o detalles."

ErrPagos == "La suma de los pagos no coincide con el importe total de la factura."

ErrDetalles == "La suma de los precios totales sin impuesto de los detalles no coincide con el totalSinImpuestos."

ErrPlaca == "El campo placa solo debe usarse en facturas de combustibles (codDoc = 01)."

ErrReembolsos == "Si hay reembolsos, debe estar presente codDocReembolso en infoFactura."

ErrInfoSustitutiva == "El bloque infoSustitutivaGuiaRemision solo es valido para versiones >= 2.0.0."

ErrOtrosRubros == "El bloque otrosRubrosTerceros solo es valido para versiones >= 2.0.0."

\* what the runtime throws for invoice.infoFactura.pagos.reduce with no pagos
TypeErrorReduce == "TypeError: Cannot read properties of undefined (reading 'reduce')"

GenOk(xml, accessKey) ==
  [ok |-> TRUE, err |-> "", xml |-> <<xml>>, accessKey |-> accessKey]

GenThrow(msg) == [ok |-> FALSE, err |-> msg, xml |-> <<>>, accessKey |-> <<>>]

GenNotCalled == [ok |-> FALSE, err |-> "not called", xml |-> <<>>, accessKey |-> <<>>]

\* a check of the type and the length only
BadNumericCodeLengthOnly(cod) == cod.type # "string" \/ Len(cod.str) # 8

\* !codigoNumerico || typeof codigoNumerico !== 'string'
\*   || !/^[0-9]{8}$/.test(codigoNumerico)
BadNumericCode(cod) ==
  \/ cod.type = "undefined"
  \/ cod.type = "string" /\ cod.str = <<>>
  \/ cod.type # "string"
  \/ ~(Len(cod.str) = 8 /\ AllDigits(cod.str))

\* reduce((acc, x) => acc + x.<field>, 0) over the amounts of a list
RECURSIVE SumFrom(_, _)
SumFrom(acc, amounts) ==
  IF amounts = <<>> THEN acc ELSE SumFrom(FAdd(acc, Head(amounts)), Tail(amounts))

PagoTotals(pagos) == [i \in 1..Len(pagos) |-> pagos[i].total]

DetalleTotals(detalles) ==
  [i \in 1..Len(detalles) |-> detalles[i].precioTotalSinImpuesto]

\* a tolerance of 0.02
ToleranceLoose == Lit(2, 2)

\* the 0.01 of the two comparisons
Tolerance == Lit(1, 2)

\* Math.abs(sum - declared) > 0.01
SumMismatch(amounts, declared) ==
  FGt(FAbs(FSub(SumFrom(Zero(2), amounts), declared)), Tolerance)

VersionsWith6Decimals == {"1.1.0", "2.1.0"}

\* a version set that admits 1.1.0 as well
VersionsFrom11 == {"1.1.0", "2.0.0", "2.1.0"}

\* the ['2.0.0', '2.1.0'] of the two block rules
Versions2x == {"2.0.0", "2.1.0"}

addAdditionalDetails(additionalDetails) ==
  OptEle(Present(additionalDetails) /\ Len(additionalDetails[1]) > 0,
         Ele("detallesAdicionales",
             [i \in 1..Len(additionalDetails[1]) |->
                EleAttrs("detAdicional",
                         << <<"nombre", additionalDetails[1][i].nombre>>,
                            <<"valor", additionalDetails[1][i].valor>> >>,
                         <<>>)]))

\* a builder that would copy the caller's claveAcceso
ClaveAccesoNodeOfCaller(it, accessKey) == Txt("claveAcceso", it.claveAcceso)

\* .ele('claveAcceso').txt(accessKey)
ClaveAccesoNode(it, accessKey) == Txt("claveAcceso", accessKey)

XmlInfoTributaria(it, accessKey) ==
  Ele("infoTributaria",
      << Txt("ambiente", it.ambiente),
         Txt("tipoEmision", it.tipoEmision),
         Txt("razonSocial", it.razonSocial) >>
      \o OptEle(Truthy(it.nombreComercial), Txt("nombreComercial", it.nombreComercial[1]))
      \o << Txt("ruc", it.ruc),
            ClaveAccesoNode(it, accessKey),
            Txt("codDoc", it.codDoc),
            Txt("estab", it.estab),
            Txt("ptoEmi", it.ptoEmi),
            Txt("secuencial", it.secuencial),
            Txt("dirMatriz", it.dirMatriz) >>
      \o OptEle(Truthy(it.agenteRetencion), Txt("agenteRetencion", it.agenteRetencion[1]))
      \o OptEle(Truthy(it.contribuyenteRimpe),
                Txt("contribuyenteRimpe", it.contribuyenteRimpe[1])))

XmlTotalImpuesto(tax) ==
  Ele("totalImpuesto",
      << Txt("codigo", tax.codigo),
         Txt("codigoPorcentaje", tax.codigoPorcentaje),
         Txt("baseImponible", ToFixed(tax.baseImponible, 2)),
         Txt("valor", ToFixed(tax.valor, 2)) >>)

XmlPago(pago) ==
  Ele("pago",
      << Txt("formaPago", pago.formaPago),
         Txt("total", ToFixed(pago.total, 2)) >>
      \o OptEle(TruthyNum(pago.plazo), Txt("plazo", NatToStr(pago.plazo[1])))
      \o OptEle(Truthy(pago.unidadTiempo), Txt("unidadTiempo", pago.unidadTiempo[1])))

XmlInfoFactura(inf) ==
  Ele("infoFactura",
      << Txt("fechaEmision", inf.fechaEmision),
         Txt("dirEstablecimiento", inf.dirEstablecimiento) >>
      \o OptEle(Truthy(inf.contribuyenteEspecial),
                Txt("contribuyenteEspecial", inf.contribuyenteEspecial[1]))
      \o << Txt("obligadoContabilidad", inf.obligadoContabilidad),
            Txt("tipoIdentificacionComprador", inf.tipoIdentificacionComprador),
            Txt("razonSocialComprador", inf.razonSocialComprador),
            Txt("identificacionComprador", inf.identificacionComprador) >>
      \o OptEle(Truthy(inf.direccionComprador),
                Txt("direccionComprador", inf.direccionComprador[1]))
      \o << Txt("totalSinImpuestos", ToFixed(inf.totalSinImpuestos, 2)),
            Txt("totalDescuento", ToFixed(inf.totalDescuento, 2)),
            Ele("totalConImpuestos",
                [i \in DOMAIN inf.totalConImpuestos |->
                   XmlTotalImpuesto(inf.totalConImpuestos[i])]),
            Txt("propina", ToFixed(inf.propina, 2)),
            Txt("importeTotal", ToFixed(inf.importeTotal, 2)),
            Txt("moneda", inf.moneda),
            Ele("pagos", [i \in DOMAIN inf.pagos[1] |-> XmlPago(inf.pagos[1][i])]) >>)

XmlImpuesto(tax) ==
  Ele("impuesto",
      << Txt("codigo", tax.codigo),
         Txt("codigoPorcentaje", tax.codigoPorcentaje),
         Txt("tarifa", NatToStr(tax.tarifa)),
         Txt("baseImponible", ToFixed(tax.baseImponible, 2)),
         Txt("valor", ToFixed(tax.valor, 2)) >>)

\* two decimals whatever the version
PrecisionTwo(version) == 2

\* ['1.1.0', '2.1.0'].includes(invoice.version) ? 6 : 2
PrecisionOf(version) == IF version \in VersionsWith6Decimals THEN 6 ELSE 2

XmlDetalle(detail, version) ==
  LET precision == PrecisionOf(version) IN
  Ele("detalle",
      << Txt("codigoPrincipal", detail.codigoPrincipal) >>
      \o OptEle(Truthy(detail.codigoAuxiliar), Txt("codigoAuxiliar", detail.codigoAuxiliar[1]))
      \o << Txt("descripcion", detail.descripcion),
            Txt("cantidad", ToFixed(detail.cantidad, precision)),
            Txt("precioUnitario", ToFixed(detail.precioUnitario, precision)),
            Txt("descuento", ToFixed(detail.descuento, 2)),
            Txt("precioTotalSinImpuesto", ToFixed(detail.precioTotalSinImpuesto, 2)) >>
      \o addAdditionalDetails(detail.detallesAdicionales)
      \o << Ele("impuestos",
                [i \in DOMAIN detail.impuestos |-> XmlImpuesto(detail.impuestos[i])]) >>)

XmlInfoAdicional(inv) ==
  OptEle(Present(inv.infoAdicional) /\ Len(inv.infoAdicional[1].campos) > 0,
         Ele("infoAdicional",
             [i \in 1..Len(inv.infoAdicional[1].campos) |->
                [ name |-> "campoAdicional",
                  attrs |-> << <<"nombre", inv.infoAdicional[1].campos[i].nombre>> >>,
                  text |-> inv.infoAdicional[1].campos[i].valor,
                  kids |-> <<>> ]]))

\* the tree built between create(...) and xml.end(...)
BuildXml(inv, accessKey) ==
  EleAttrs("factura",
           << <<"id", <<"comprobante">> >>, <<"version", <<inv.version>> >> >>,
           << XmlInfoTributaria(inv.infoTributaria[1], accessKey),
              XmlInfoFactura(inv.infoFactura[1]),
              Ele("detalles",
                  [i \in 1..Len(inv.detalles[1]) |->
                     XmlDetalle(inv.detalles[1][i], inv.version)]) >>
           \o XmlInfoAdicional(inv))

\* the AccessKeyParts that generateInvoiceXML passes to getAccessKey
InvoiceKeyParts(inv, cod) ==
  [ date |-> inv.infoFactura[1].fechaEmision,
    voucherType |-> inv.infoTributaria[1].codDoc,
    ruc |-> inv.infoTributaria[1].ruc,
    environment |-> inv.infoTributaria[1].ambiente,
    series |-> inv.infoTributaria[1].estab \o inv.infoTributaria[1].ptoEmi,
    sequence |-> inv.infoTributaria[1].secuencial,
    numericCode |-> cod.str,
    emissionType |-> inv.infoTributaria[1].tipoEmision ]

\* the validations, in the order of the code; "" when none throws
\* a test that rejects the placa of a fuel-sale invoice
PlacaInFuelSale(inv) ==
  Truthy(inv.infoFactura[1].placa) /\ inv.infoTributaria[1].codDoc = <<"0", "1">>

\* invoice.infoFactura.placa && invoice.infoTributaria.codDoc !== '01'
PlacaOutsideFuelSale(inv) ==
  Truthy(inv.infoFactura[1].placa) /\ inv.infoTributaria[1].codDoc # <<"0", "1">>

\* a test that takes an empty codDocReembolso for a declared one
ReembolsosWithoutDefinedCode(inv) ==
  Present(inv.reembolsos) /\ ~Present(inv.infoFactura[1].codDocReembolso)

\* invoice.reembolsos && !invoice.infoFactura.codDocReembolso
ReembolsosWithoutCode(inv) ==
  Present(inv.reembolsos) /\ ~Truthy(inv.infoFactura[1].codDocReembolso)

ValidationError(inv) ==
  IF \/ ~Present(inv.infoTributaria) \/ ~Present(inv.infoFactura)
     \/ ~Present(inv.detalles) \/ Len(inv.detalles[1]) = 0
  THEN ErrMissingBlocks
  ELSE IF ~Present(inv.infoFactura[1].pagos) THEN TypeErrorReduce
  ELSE IF SumMismatch(PagoTotals(inv.infoFactura[1].pagos[1]),
                      inv.infoFactura[1].importeTotal)
  THEN ErrPagos
  ELSE IF SumMismatch(DetalleTotals(inv.detalles[1]),
                      inv.infoFactura[1].totalSinImpuestos)
  THEN ErrDetalles
  ELSE IF PlacaOutsideFuelSale(inv)
  THEN ErrPlaca
  ELSE IF ReembolsosWithoutCode(inv)
  THEN ErrReembolsos
  ELSE IF Present(inv.infoSustitutivaGuiaRemision) /\ inv.version \notin Versions2x
  THEN ErrInfoSustitutiva
  ELSE IF Present(inv.otrosRubrosTerceros) /\ inv.version \notin Versions2x
  THEN ErrOtrosRubros
  ELSE ""

generateInvoiceXML(inv, cod) ==
  IF BadNumericCode(cod) THEN GenThrow(ErrNumericCode)
  ELSE IF ValidationError(inv) # "" THEN GenThrow(ValidationError(inv))
  ELSE LET accessKey == getAccessKey(InvoiceKeyParts(inv, cod)) IN
       IF ~accessKey.ok THEN GenThrow(accessKey.err)
       ELSE GenOk(BuildXml(inv, accessKey.val), accessKey.val)

(***************************************************************************)
(* signXML (src/services/signing.ts).  The messages are kept character by  *)
(* character, in ASCII, because the catch block searches one of them.      *)
(***************************************************************************)
\* String.prototype.toLowerCase
ToLowerCase(s) ==
  LET upper == <<"A", "B", "C", "D", "E", "F", "G", "H", "I", "J", "K", "L", "M",
                 "N", "O", "P", "Q", "R", "S", "T", "U", "V", "W", "X", "Y", "Z">>
      lower == <<"a", "b", "c", "d", "e", "f", "g", "h", "i", "j", "k", "l", "m",
                 "n", "o", "p", "q", "r", "s", "t", "u", "v", "w", "x", "y", "z">>
  IN  [i \in 1..Len(s) |->
         IF \E j \in DOMAIN upper : upper[j] = s[i]
         THEN lower[CHOOSE j \in DOMAIN upper : upper[j] = s[i]]
         ELSE s[i]]

\* String.prototype.includes
Includes(s, sub) ==
  \E i \in 0..(Len(s) - Len(sub)) : SubSeq(s, i + 1, i + Len(sub)) = sub

ErrCertificateNotFound(certificatePath) ==
  <<"E", "l", " ", "a", "r", "c", "h", "i", "v", "o", " ", "d",
    "e", "l", " ", "c", "e", "r", "t", "i", "f", "i", "c", "a",
    "d", "o", " ", "n", "o", " ", "s", "e", " ", "e", "n", "c",
    "o", "n", "t", "r", "o", " ", "e", "n", " ", "l", "a", " ",
    "r", "u", "t", "a", ":", " ">>
    \o certificatePath

ErrNoCertBag ==
  <<"N", "o", " ", "s", "e", " ", "e", "n", "c", "o", "n", "t",
    "r", "o", " ", "u", "n", " ", "c", "e", "r", "t", "i", "f",
    "i", "c", "a", "d", "o", " ", "d", "i", "g", "i", "t", "a",
    "l", " ", "e", "n", " ", "e", "l", " ", "a", "r", "c", "h",
    "i", "v", "o", " ", "P", "1", "2", ".">>

ErrNoShroudedKeyBag ==
  <<"N", "o", " ", "s", "e", " ", "e", "n", "c", "o", "n", "t",
    "r", "o", " ", "u", "n", "a", " ", "c", "l", "a", "v", "e",
    " ", "p", "r", "i", "v", "a", "d", "a", " ", "e", "n", " ",
    "f", "o", "r", "m", "a", "t", "o", " ", "P", "K", "C", "S",
    "#", "8", " ", "e", "n", " ", "e", "l", " ", "a", "r", "c",
    "h", "i", "v", "o", " ", "P", "1", "2", ".", " ", "S", "i",
    " ", "s", "u", " ", "c", "e", "r", "t", "i", "f", "i", "c",
    "a", "d", "o", " ", "e", "s", " ", "a", "n", "t", "i", "g",
    "u", "o", ",", " ", "c", "o", "n", "v", "i", "e", "r", "t",
    "a", "l", "o", " ", "a", " ", "P", "K", "C", "S", "#", "8",
    " ", "u", "s", "a", "n", "d", "o", " ", "O", "p", "e", "n",
    "S", "S", "L", ".">>

ErrNoCertificate ==
  <<"N", "o", " ", "s", "e", " ", "p", "u", "d", "o", " ", "e",
    "x", "t", "r", "a", "e", "r", " ", "e", "l", " ", "c", "e",
    "r", "t", "i", "f", "i", "c", "a", "d", "o", " ", "d", "e",
    "l", " ", "b", "a", "g", ".">>

ErrNoPrivateKey ==
  <<"N", "o", " ", "s", "e", " ", "p", "u", "d", "o", " ", "e",
    "x", "t", "r", "a", "e", "r", " ", "l", "a", " ", "c", "l",
    "a", "v", "e", " ", "p", "r", "i", "v", "a", "d", "a", " ",
    "d", "e", "l", " ", "b", "a", "g", " ", "n", "i", " ", "d",
    "e", "l", " ", "f", "a", "l", "l", "b", "a", "c", "k", ".">>

ErrNoSignatureNode ==
  <<"N", "o", " ", "s", "e", " ", "p", "u", "d", "o", " ", "o",
    "b", "t", "e", "n", "e", "r", " ", "e", "l", " ", "n", "o",
    "d", "o", " ", "d", "e", " ", "l", "a", " ", "f", "i", "r",
    "m", "a", ".">>

ErrWrongPassword ==
  <<"L", "a", " ", "c", "o", "n", "t", "r", "a", "s", "e", "n",
    "a", " ", "d", "e", "l", " ", "c", "e", "r", "t", "i", "f",
    "i", "c", "a", "d", "o", " ", "e", "s", " ", "i", "n", "c",
    "o", "r", "r", "e", "c", "t", "a", " ", "o", " ", "e", "l",
    " ", "a", "r", "c", "h", "i", "v", "o", " ", "P", "1", "2",
    " ", "e", "s", "t", "a", " ", "d", "a", "n", "a", "d", "o",
    ".">>

SignFailurePrefix ==
  <<"F", "a", "l", "l", "o", " ", "e", "n", " ", "e", "l", " ",
    "p", "r", "o", "c", "e", "s", "o", " ", "d", "e", " ", "f",
    "i", "r", "m", "a", ":", " ">>

MacVerify ==
  <<"m", "a", "c", " ", "v", "e", "r", "i", "f", "y">>

\* messages of the errors the libraries under signXML throw
ForgeMacMessage ==
  <<"P", "K", "C", "S", "#", "1", "2", " ", "M", "A", "C", " ",
    "c", "o", "u", "l", "d", " ", "n", "o", "t", " ", "b", "e",
    " ", "v", "e", "r", "i", "f", "i", "e", "d", ".", " ", "I",
    "n", "v", "a", "l", "i", "d", " ", "p", "a", "s", "s", "w",
    "o", "r", "d", "?">>

MacVerifyFailureMessage ==
  <<"M", "a", "c", " ", "v", "e", "r", "i", "f", "y", " ", "e",
    "r", "r", "o", "r", ":", " ", "i", "n", "v", "a", "l", "i",
    "d", " ", "p", "a", "s", "s", "w", "o", "r", "d", "?">>

ForgeDerMessage ==
  <<"T", "o", "o", " ", "f", "e", "w", " ", "b", "y", "t", "e",
    "s", " ", "t", "o", " ", "p", "a", "r", "s", "e", " ", "D",
    "E", "R", ".">>

ImportKeyMessage ==
  <<"C", "a", "n", "n", "o", "t", " ", "i", "m", "p", "o", "r",
    "t", " ", "t", "h", "e", " ", "k", "e", "y">>

SignMessage ==
  <<"C", "a", "n", "n", "o", "t", " ", "s", "i", "g", "n", " ",
    "t", "h", "e", " ", "d", "o", "c", "u", "m", "e", "n", "t">>

LogEntry(stream, label, value) ==
  [stream |-> stream, label |-> label, value |-> value]

\* the catch block: what signXML rethrows for a caught error, and what it
\* writes to the console before
SignXmlCatch(message) ==
  IF message # <<>> /\ Includes(ToLowerCase(message), MacVerify)
  THEN [err |-> ErrWrongPassword, logs |-> <<>>]
  ELSE [err |-> SignFailurePrefix \o message,
        logs |-> << LogEntry("error",
                             "Ocurrio un error inesperado durante la firma del XML:",
                             message) >>]

\* the console.log calls on the private key
KeyLogs(privateKeyObj) ==
  << LogEntry("log", "DEBUG typeof privateKeyObj:", 
              <<IF Present(privateKeyObj) THEN "object" ELSE "undefined">>),
     LogEntry("log", "DEBUG privateKeyObj:", privateKeyObj) >>

\* if (!privateKeyObj) { ... keyBag ... }: the key after the fallback and the
\* console.log of the fallback
KeyFallback(p12, privateKeyObj) ==
  IF ~Present(privateKeyObj) /\ Len(p12.keyBags) > 0
  THEN [key |-> p12.keyBags[1],
        logs |-> << LogEntry("log", "DEBUG Fallback keyBag[0].key:", p12.keyBags[1]) >>]
  ELSE [key |-> privateKeyObj, logs |-> <<>>]

Extracted(err, logs, cert, key) ==
  [err |-> err, logs |-> logs, cert |-> cert, key |-> key]

\* the try block of signXML up to its first await: the error thrown there,
\* if any (<<>> when none), the console lines, the certificate and the key
SignXmlExtract(p12, certificatePassword) ==
  IF Present(p12.derError)
  THEN Extracted(p12.derError, <<>>, Undefined, Undefined)
  ELSE IF certificatePassword # p12.password
  THEN Extracted(<<p12.macError>>, <<>>, Undefined, Undefined)
  ELSE IF Len(p12.certBags) = 0
  THEN Extracted(<<ErrNoCertBag>>, <<>>, Undefined, Undefined)
  ELSE IF Len(p12.shroudedKeyBags) = 0
  THEN Extracted(<<ErrNoShroudedKeyBag>>, <<>>, Undefined, Undefined)
  ELSE LET certificateObj == p12.certBags[1]
           shrouded == p12.shroudedKeyBags[1]
           fallback == KeyFallback(p12, shrouded)
           logs == KeyLogs(shrouded) \o fallback.logs
       IN  IF ~Present(certificateObj)
           THEN Extracted(<<ErrNoCertificate>>, logs, Undefined, Undefined)
           ELSE IF ~Present(fallback.key)
           THEN Extracted(<<ErrNoPrivateKey>>, logs, Undefined, Undefined)
           ELSE Extracted(<<>>, logs, certificateObj, fallback.key)

\* the ds:Signature element SignedXml.Sign builds: one reference, to the
\* element whose id is comprobante, and the certificate
SignatureNode(privateKey, certBase64) ==
  Ele("ds:Signature",
      << Ele("ds:SignedInfo",
             << EleAttrs("ds:Reference",
                         << <<"URI", <<"#", "comprobante">> >> >>,
                         << Txt("ds:Transform", <<"enveloped">>),
                            Txt("ds:Transform", <<"c14n">>),
                            Txt("ds:DigestMethod", <<"SHA-256">>) >>) >>),
         Txt("ds:SignatureValue", <<"RSASSA-PKCS1-v1_5", privateKey.signs>>),
         Ele("ds:KeyInfo", << Txt("ds:X509Certificate", certBase64) >>) >>)

\* an insertion before the first child of the root
PrependChild(doc, node) == [doc EXCEPT !.kids = <<node>> \o @]

\* doc.documentElement.appendChild(signatureNode)
AppendChild(doc, node) == [doc EXCEPT !.kids = Append(@, node)]

(***************************************************************************)
(* OpenFactura.createAndSignInvoice (src/index.ts).  The call runs in      *)
(* three steps, cut at the two awaits of signXML: up to importKey, from    *)
(* there to Sign, and from there to the return.                            *)
(***************************************************************************)
\* what the assignment to invoiceData.infoTributaria.ambiente throws when
\* the invoice has no infoTributaria
TypeErrorSet == "TypeError: Cannot set properties of undefined (setting 'ambiente')"

NoInvoice ==
  [ version |-> "1.0.0", infoTributaria |-> Undefined, infoFactura |-> Undefined,
    detalles |-> Undefined, retenciones |-> Undefined, reembolsos |-> Undefined,
    infoSustitutivaGuiaRemision |-> Undefined, otrosRubrosTerceros |-> Undefined,
    infoAdicional |-> Undefined ]

NoArgument == [type |-> "undefined", str |-> <<>>]

StringArgument(s) == [type |-> "string", str |-> s]

NoConfig == [p12Path |-> <<>>, p12Password |-> <<>>, ambiente |-> <<>>]

\* the call before it is made
\* io: the operations outside the process that the call has made, in order
NoCall ==
  [ pc |-> "idle", ok |-> FALSE, err |-> "", signErr |-> <<>>,
    accessKey |-> <<>>, signedXml |-> <<>>,
    unsignedXml |-> <<>>, privateKey |-> <<>>, certificate |-> <<>>,
    io |-> <<>> ]

\* a rejection that comes after the certificate file has been looked up
RejectedBuildAfterLookup(msg) ==
  [NoCall EXCEPT !.pc = "done", !.err = msg, !.io = <<"existsSync">>]

\* the promise rejected with an error of generateInvoiceXML
RejectedBuild(msg) == [NoCall EXCEPT !.pc = "done", !.err = msg]

\* the promise rejected with an error of signXML
RejectedSign(message) == [NoCall EXCEPT !.pc = "done", !.signErr = message]

\* suspended at an await of signXML, with the locals alive across it
Awaiting(pc, accessKey, unsignedXml, privateKey, certificate) ==
  [NoCall EXCEPT !.pc = pc, !.accessKey = accessKey, !.unsignedXml = <<unsignedXml>>,
                 !.privateKey = <<privateKey>>, !.certificate = <<certificate>>]

\* return { accessKey, signedXml }
Resolved(accessKey, signedXml) ==
  [NoCall EXCEPT !.pc = "done", !.ok = TRUE, !.accessKey = accessKey,
                 !.signedXml = <<signedXml>>]

\* invoiceData.infoTributaria.ambiente = this.config.ambiente
WithAmbiente(inv, ambiente) ==
  [inv EXCEPT !.infoTributaria = <<[@[1] EXCEPT !.ambiente = ambiente]>>]

(***************************************************************************)
(* The services of the SRI (src/services/reception.ts and                  *)
(* src/services/authorization.ts).  A response body is the element tree    *)
(* DOMParser makes of it; the text of an element is a string in chunks.    *)
(***************************************************************************)
receptionEndpoints ==
  [ pruebas |-> "https://celcer.sri.gob.ec/comprobantes-electronicos-ws/RecepcionComprobantesOffline?wsdl",
    produccion |-> "https://cel.sri.gob.ec/comprobantes-electronicos-ws/RecepcionComprobantesOffline?wsdl" ]

authorizationEndpoints ==
  [ pruebas |-> "https://celcer.sri.gob.ec/comprobantes-electronicos-ws/AutorizacionComprobantesOffline?wsdl",
    produccion |-> "https://cel.sri.gob.ec/comprobantes-electronicos-ws/AutorizacionComprobantesOffline?wsdl" ]

\* ambiente == '1' ? endpoints.pruebas : endpoints.produccion: the comparison
\* that converts its operands
EndpointForLoose(endpoints, ambiente) ==
  IF ambiente.type # "undefined" /\ ambiente.str = <<"1">>
  THEN endpoints.pruebas ELSE endpoints.produccion

\* ambiente === '1' ? endpoints.pruebas : endpoints.produccion, for an
\* argument of any type
EndpointFor(endpoints, ambiente) ==
  IF ambiente.type = "string" /\ ambiente.str = <<"1">>
  THEN endpoints.pruebas ELSE endpoints.produccion

\* Node.textContent: the text of the element and of its descendants, in
\* document order
RECURSIVE TextOfAll(_)
TextOfAll(nodes) ==
  IF nodes = <<>> THEN <<>>
  ELSE Head(nodes).text \o TextOfAll(Head(nodes).kids) \o TextOfAll(Tail(nodes))

textContent(node) == TextOfAll(<<node>>)

\* the elements of that name among the nodes and their descendants, in
\* document order
RECURSIVE ElementsNamed(_, _)
ElementsNamed(nodes, name) ==
  IF nodes = <<>> THEN <<>>
  ELSE (IF Head(nodes).name = name THEN <<Head(nodes)>> ELSE <<>>)
         \o ElementsNamed(Head(nodes).kids, name)
         \o ElementsNamed(Tail(nodes), name)

\* node.getElementsByTagName(name): the descendants of that name
getElementsByTagName(node, name) == ElementsNamed(node.kids, name)

\* node.getElementsByTagName(name)[0]?.textContent
FirstText(node, name) ==
  LET found == getElementsByTagName(node, name)
  IN  IF found = <<>> THEN Undefined ELSE Some(textContent(found[1]))

\* value || null, null being the absent optional
OrNull(o) == IF Truthy(o) THEN o ELSE Undefined

\* the record of the first mensaje element alone
SriErrorsFirstOnly(node) ==
  LET mensajesNodes == getElementsByTagName(node, "mensaje")
  IN  [ i \in 1..(IF mensajesNodes = <<>> THEN 0 ELSE 1) |->
          [ identificador |-> OrNull(FirstText(mensajesNodes[i], "identificador")),
            mensaje |-> OrNull(FirstText(mensajesNodes[i], "mensaje")),
            informacionAdicional |->
              OrNull(FirstText(mensajesNodes[i], "informacionAdicional")),
            tipo |-> OrNull(FirstText(mensajesNodes[i], "tipo")) ] ]

\* the SriError records made of the mensaje elements under a node
SriErrors(node) ==
  LET mensajesNodes == getElementsByTagName(node, "mensaje")
  IN  [ i \in 1..Len(mensajesNodes) |->
          [ identificador |-> OrNull(FirstText(mensajesNodes[i], "identificador")),
            mensaje |-> OrNull(FirstText(mensajesNodes[i], "mensaje")),
            informacionAdicional |->
              OrNull(FirstText(mensajesNodes[i], "informacionAdicional")),
            tipo |-> OrNull(FirstText(mensajesNodes[i], "tipo")) ] ]

\* errores.map(e => `  - [${e.identificador}] ${e.mensaje}
\* ${e.informacionAdicional || ''}`).join('\n')
RECURSIVE ErrorDetails(_)
ErrorDetails(errores) ==
  IF errores = <<>> THEN <<>>
  ELSE LET e == Head(errores)
           Shown(o) == IF Present(o) THEN o[1] ELSE <<"null">>
           line == <<"  - [">> \o Shown(e.identificador) \o <<"] ">>
                     \o Shown(e.mensaje) \o <<" ">>
                     \o (IF Truthy(e.informacionAdicional)
                         THEN e.informacionAdicional[1] ELSE <<>>)
       IN  line \o (IF Tail(errores) = <<>> THEN <<>> ELSE <<"\n">>)
                \o ErrorDetails(Tail(errores))

\* what axios.post settled to: a response with its body, or an AxiosError
\* with its message and the body of the response it carries, if any
HttpResponse(data) == [ok |-> TRUE, data |-> data, message |-> <<>>, fault |-> Undefined]

AxiosError(message, fault) ==
  [ok |-> FALSE, data |-> Ele("#document", <<>>), message |-> message, fault |-> fault]

\* the catch block of both services on an AxiosError; fault is the text
\* between <faultstring> and </faultstring> of error.response.data
CommunicationError(service, error) ==
  <<"Error en la comunicacion con el SRI (", service, "): ">> \o error.message
    \o (IF Truthy(error.fault)
        THEN <<"\nDetalle del SRI: ">> \o error.fault[1] ELSE <<>>)

\* the call to a service before it is made
\* by: the function the caller called; fn: the service function running
NoRemoteCall ==
  [ pc |-> "idle", by |-> "", fn |-> "", argument |-> <<>>, ambiente |-> NoArgument,
    received |-> Undefined, ok |-> FALSE, value |-> Undefined, err |-> <<>> ]

\* the call suspended at its await of axios.post
Posted(by, fn, argument, ambiente) ==
  [NoRemoteCall EXCEPT !.pc = "post", !.by = by, !.fn = fn, !.argument = argument,
                       !.ambiente = ambiente]

RemoteOk(value) == [ok |-> TRUE, value |-> Some(value), err |-> <<>>]

RemoteThrow(message) == [ok |-> FALSE, value |-> Undefined, err |-> message]

ErrNoEstado ==
  <<"Respuesta invalida del SRI (Recepcion): No se encontro el campo \"estado\".">>

ErrDevuelta(errores) ==
  <<"El SRI devolvio el comprobante con los siguientes errores:\n">>
    \o ErrorDetails(errores)

\* sendSignedXml from the settling of axios.post to its end
ReceptionOutcome(settled) ==
  IF ~settled.ok THEN RemoteThrow(CommunicationError("Recepcion", settled))
  ELSE LET doc == settled.data
           estado == FirstText(doc, "estado")
       IN  IF ~Present(estado) THEN RemoteThrow(ErrNoEstado)
           ELSE IF estado[1] = <<"DEVUELTA">>
           THEN RemoteThrow(ErrDevuelta(SriErrors(doc)))
           ELSE RemoteOk([estado |-> estado[1]])

ErrNotProcessed(accessKey) ==
  <<"El comprobante con clave ">> \o accessKey
    \o <<" aun no ha sido procesado por el SRI. Intente de nuevo mas tarde.">>

ErrNoAutorizacion ==
  <<"Respuesta invalida del SRI (Autorizacion): No se encontro el nodo \"autorizacion\".">>

ErrNotAuthorized(accessKey, mensajes) ==
  <<"El SRI no autorizo el comprobante con clave ">> \o accessKey \o <<":\n">>
    \o ErrorDetails(mensajes)

\* checkAuthorization from the settling of axios.post to its end
AuthorizationOutcome(accessKey, settled) ==
  IF ~settled.ok THEN RemoteThrow(CommunicationError("Autorizacion", settled))
  ELSE LET doc == settled.data
           found == getElementsByTagName(doc, "autorizacion")
       IN  IF found = <<>>
           THEN IF FirstText(doc, "numeroComprobantes") = Some(<<"0">>)
                THEN RemoteThrow(ErrNotProcessed(accessKey))
                ELSE RemoteThrow(ErrNoAutorizacion)
           ELSE LET autorizacionNode == found[1]
                    estado == FirstText(autorizacionNode, "estado")
                    mensajes == SriErrors(autorizacionNode)
                IN  IF estado = Some(<<"NO AUTORIZADO">>)
                    THEN RemoteThrow(ErrNotAuthorized(accessKey, mensajes))
                    ELSE RemoteOk(
                           [ estado |-> estado,
                             numeroAutorizacion |->
                               OrNull(FirstText(autorizacionNode, "numeroAutorizacion")),
                             fechaAutorizacion |->
                               OrNull(FirstText(autorizacionNode, "fechaAutorizacion")),
                             ambiente |-> OrNull(FirstText(autorizacionNode, "ambiente")),
                             comprobante |->
                               OrNull(FirstText(autorizacionNode, "comprobante")),
                             mensajes |-> mensajes ])

(***************************************************************************)
(* The access key functions called on their own: Init draws the            *)
(* AccessKeyParts, GetAccessKeyCall and GetCheckDigitCall apply the two    *)
(* functions.                                                              *)
(***************************************************************************)
MaxSecuencial == 6

EnvironmentSamples == { <<"1">>, <<"2">> }

ExampleKey48 ==
  <<"1", "5", "0", "6", "2", "0", "2", "4", "0", "1", "1", "7", "9", "0", "0", "1",
    "2", "3", "4", "5", "0", "0", "1", "1", "0", "0", "1", "0", "0", "1", "0", "0",
    "0", "0", "0", "0", "0", "0", "1", "1", "2", "3", "4", "5", "6", "7", "8", "1">>

KeySamples ==
  { ExampleKey48,
    Tail(ExampleKey48),
    ExampleKey48 \o <<"9">>,
    [ExampleKey48 EXCEPT ![20] = "x"] }

\* what the parts at hand concatenate to, whatever its length
PartsKeys(p) ==
  { Join(KeyPieces(p, SelectSeq(p.date, LAMBDA c : c # "/"))) }

PartsSamples ==
  LET
      DateSamples ==
          { <<"1", "5", "/", "0", "6", "/", "2", "0", "2", "4">>,
          <<"1", "/", "6", "/", "2", "0", "2", "4">>,
          <<"1", "5", "/", "0", "6", "/", "2", "4">>,
          <<"1", "5", "-", "0", "6", "-", "2", "0", "2", "4">>,
          <<"1", "5", "/", "0", "6", "/", "2", "0", "2", "4", "/", "1">>,
          <<"0", "6", "/", "2", "0", "2", "4">>,
          <<"1", "5", "/", "0", "a", "/", "2", "0", "2", "4">> }
      VoucherTypeSamples ==
          { <<"0", "1">>, <<"4">>, <<"0", "0", "1">> }
      RucSamples ==
          { <<"1", "7", "9", "0", "0", "1", "2", "3", "4", "5", "0", "0", "1">>,
          <<"1", "7", "9", "0", "0", "1", "2", "3", "4", "5", "0", "0">>,
          <<"1", "7", "9", "0", "0", "1", "2", "3", "4", "5", "0", "0", "1", "0", "0">>,
          <<"1", "7", "9", "0", "0", "1", "2", "3", "4", "5", "0", "A", "1">> }
      SeriesSamples ==
          { <<"0", "0", "1", "0", "0", "1">>, <<"2", "0", "0", "3">> }
      SequenceSamples ==
          { NatToStr(n) : n \in 1..MaxSecuencial }
          \cup { <<"0", "0", "0", "0", "0", "0", "0", "0", "0", "1">> }
      NumericCodeSamples ==
          { <<"1", "2", "3", "4", "5", "6", "7", "8">>, <<"7", "6", "5", "4", "3", "2", "1">> }
      EmissionTypeSamples ==
          { <<"1">> }
  IN
  [ date : DateSamples, voucherType : VoucherTypeSamples, ruc : RucSamples,
    environment : EnvironmentSamples, series : SeriesSamples,
    sequence : SequenceSamples, numericCode : NumericCodeSamples,
    emissionType : EmissionTypeSamples ]

NoDigitCall == [called |-> FALSE, arg |-> <<>>, res |-> NaN]

InitKey ==
  /\ parts \in PartsSamples
  /\ keyResult = NotCalled
  /\ digitResult = NoDigitCall
  /\ invoice = NoInvoice
  /\ codigoNumerico = NoArgument
  /\ genResult = GenNotCalled
  /\ genAgain = GenNotCalled
  /\ config = NoConfig
  /\ container = Undefined
  /\ call = NoCall
  /\ console = <<>>
  /\ signers = <<>>
  /\ engine = Undefined
  /\ remote = NoRemoteCall
  /\ requests = <<>>

GetAccessKeyCall ==
  /\ ~Called(keyResult)
  /\ keyResult' = getAccessKey(parts)
  /\ UNCHANGED <<parts, digitResult, invoice, codigoNumerico, genResult,
                  genAgain, config, container, call, console,
                  signers, engine,
                 remote, requests>>

GetCheckDigitCall ==
  /\ ~digitResult.called
  /\ \E k \in KeySamples \cup PartsKeys(parts) :
       digitResult' = [called |-> TRUE, arg |-> k, res |-> getCheckDigit(k)]
  /\ UNCHANGED <<parts, keyResult, invoice, codigoNumerico, genResult,
                  genAgain, config, container, call, console,
                  signers, engine,
                 remote, requests>>

NextKey == GetAccessKeyCall \/ GetCheckDigitCall

SpecKey == InitKey /\ [][NextKey]_vars

(***************************************************************************)
(* Invoices.  Text the program only copies is kept in one piece; the       *)
(* fields the access key is made of are kept character by character.       *)
(* Amounts are decimal literals, read as the doubles they denote.          *)
(***************************************************************************)
MaxPagos == 2

MaxDetalles == 2

\* the double of an amount of u cents
Amt(u) == Lit(u, 2)

ValidDate == <<"1", "5", "/", "0", "6", "/", "2", "0", "2", "4">>

ValidRuc == <<"1", "7", "9", "0", "0", "1", "2", "3", "4", "5", "0", "0",
    "1">>

ValidCode == <<"1", "2", "3", "4", "5", "6", "7", "8">>

StaleKey == ExampleKey48 \o <<"9">>

Impuesto(baseImponible, valor) ==
  [ codigo |-> <<"2">>, codigoPorcentaje |-> <<"0">>, tarifa |-> 0,
    baseImponible |-> baseImponible, valor |-> valor ]

Detalle(cantidad, precioUnitario, precioTotalSinImpuesto) ==
  [ codigoPrincipal |-> <<"P001">>, codigoAuxiliar |-> Undefined,
    descripcion |-> <<"Servicio">>, cantidad |-> cantidad,
    precioUnitario |-> precioUnitario, descuento |-> Amt(0),
    precioTotalSinImpuesto |-> precioTotalSinImpuesto,
    detallesAdicionales |-> Undefined,
    impuestos |-> << Impuesto(precioTotalSinImpuesto, Amt(0)) >> ]

Pago(total) ==
  [formaPago |-> <<"01">>, total |-> total, plazo |-> Undefined,
   unidadTiempo |-> Undefined]

BaseInfoTributaria ==
  [ ambiente |-> <<"1">>, tipoEmision |-> <<"1">>, razonSocial |-> <<"ACME S.A.">>,
    nombreComercial |-> Some(<<"ACME">>), ruc |-> ValidRuc, claveAcceso |-> <<>>,
    codDoc |-> <<"0", "1">>, estab |-> <<"0", "0", "1">>,
    ptoEmi |-> <<"0", "0", "1">>,
    secuencial |-> <<"0", "0", "0", "0", "0", "0", "0", "0", "1">>,
    dirMatriz |-> <<"Quito">>, agenteRetencion |-> Undefined,
    contribuyenteRimpe |-> Undefined ]

BaseInfoFactura ==
  [ fechaEmision |-> ValidDate, dirEstablecimiento |-> <<"Quito">>,
    contribuyenteEspecial |-> Undefined, obligadoContabilidad |-> <<"SI">>,
    tipoIdentificacionComprador |-> <<"05">>,
    razonSocialComprador |-> <<"Juan Perez">>,
    identificacionComprador |-> <<"1712345678">>,
    direccionComprador |-> Undefined,
    totalSinImpuestos |-> Amt(10000), totalDescuento |-> Amt(0),
    totalConImpuestos |-> << [ codigo |-> <<"2">>, codigoPorcentaje |-> <<"0">>,
                               baseImponible |-> Amt(10000), valor |-> Amt(0) ] >>,
    propina |-> Amt(0), importeTotal |-> Amt(10000), moneda |-> <<"DOLAR">>,
    pagos |-> Some(<< Pago(Amt(10000)) >>), placa |-> Undefined,
    codDocReembolso |-> Undefined ]

BaseInvoice ==
  [ version |-> "1.0.0",
    infoTributaria |-> Some(BaseInfoTributaria),
    infoFactura |-> Some(BaseInfoFactura),
    detalles |-> Some(<< Detalle(Lit(25, 1), Amt(4000), Amt(10000)) >>),
    retenciones |-> Undefined, reembolsos |-> Undefined,
    infoSustitutivaGuiaRemision |-> Undefined, otrosRubrosTerceros |-> Undefined,
    infoAdicional |-> Undefined ]

\* an invoice with some fields of its infoTributaria and infoFactura replaced
WithTributaria(inv, field, value) ==
  [inv EXCEPT !.infoTributaria = <<[@[1] EXCEPT ![field] = value]>>]

WithFactura(inv, field, value) ==
  [inv EXCEPT !.infoFactura = <<[@[1] EXCEPT ![field] = value]>>]

\* the numeric codes a caller may pass: nothing, a number, strings
NumericCodeArguments ==
  { NoArgument,
    [type |-> "number", str |-> ValidCode],
    StringArgument(<<>>),
    StringArgument(ValidCode),
    StringArgument(SubSeq(ValidCode, 1, 7)),
    StringArgument(ValidCode \o <<"9">>),
    StringArgument([ValidCode EXCEPT ![8] = "a"]) }

\* invoices with a caller's claveAcceso, some that break a rule, and some
\* with a tax ID of 12 characters and a secuencial of 10
FacadeInvoices ==
  LET Shaped(inv, shape) ==
        IF shape = "noInfoTributaria" THEN [inv EXCEPT !.infoTributaria = Undefined]
        ELSE IF shape = "noDetalles" THEN [inv EXCEPT !.detalles = Some(<<>>)]
        ELSE IF shape = "pagosMismatch"
        THEN WithFactura(inv, "importeTotal", Amt(10500))
        ELSE IF shape = "shiftedFields"
        THEN WithTributaria(
               WithTributaria(inv, "ruc", SubSeq(inv.infoTributaria[1].ruc, 1, 12)),
               "secuencial", <<"0">> \o inv.infoTributaria[1].secuencial)
        ELSE inv
  IN  { Shaped(
          WithFactura(
            WithTributaria(
              WithTributaria(
                WithTributaria(BaseInvoice, "claveAcceso", clave),
                "ruc", ruc),
              "ambiente", ambiente),
            "fechaEmision", fecha),
          shape) :
          clave \in {<<>>, StaleKey},
          ruc \in {ValidRuc, [ValidRuc EXCEPT ![12] = "A"]},
          ambiente \in EnvironmentSamples,
          fecha \in {ValidDate, <<"2", "0", "2", "4", "-", "0", "6", "-", "1", "5">>},
          shape \in {"valid", "noInfoTributaria", "noDetalles", "pagosMismatch",
                     "shiftedFields"} }

(***************************************************************************)
(* Key containers (.p12 files) and configurations                          *)
(***************************************************************************)
Cert1 == [base64 |-> <<"MIIC-cert-1">>]

Key1 == [pkcs8 |-> <<"pkcs8-bytes-key-1">>, signs |-> "signature-of-key-1"]

Key2 == [pkcs8 |-> <<"pkcs8-bytes-key-2">>, signs |-> "signature-of-key-2"]

RightPassword == <<"s3cret">>

WrongPassword == <<"guess">>

GoodContainer ==
  [ derError |-> Undefined, password |-> RightPassword, macError |-> ForgeMacMessage,
    certBags |-> << Some(Cert1) >>, shroudedKeyBags |-> << Some(Key1) >>,
    keyBags |-> <<>> ]

ContainerSamples ==
  { GoodContainer,
    [GoodContainer EXCEPT !.macError = MacVerifyFailureMessage],
    [GoodContainer EXCEPT !.derError = Some(ForgeDerMessage)],
    [GoodContainer EXCEPT !.certBags = <<>>],
    [GoodContainer EXCEPT !.certBags = << Undefined >>],
    [GoodContainer EXCEPT !.shroudedKeyBags = <<>>, !.keyBags = << Some(Key2) >>],
    [GoodContainer EXCEPT !.shroudedKeyBags = << Undefined >>,
                          !.keyBags = << Some(Key2) >>],
    [GoodContainer EXCEPT !.shroudedKeyBags = << Undefined >>] }

\* the password of the configuration and what is at its p12Path
CertificateSetups ==
  ({RightPassword} \X ({Undefined} \cup { Some(c) : c \in ContainerSamples }))
    \cup ({WrongPassword} \X
            { Some(GoodContainer),
              Some([GoodContainer EXCEPT !.macError = MacVerifyFailureMessage]) })

Config(p12Password, ambiente) ==
  [p12Path |-> <<"cert.p12">>, p12Password |-> p12Password, ambiente |-> ambiente]

(***************************************************************************)
(* The builder and the facade: Init draws the invoice, the numeric code,   *)
(* the configuration and the key container.                                *)
(***************************************************************************)
Init ==
  /\ parts = InvoiceKeyParts(BaseInvoice, StringArgument(ValidCode))
  /\ keyResult = NotCalled
  /\ digitResult = NoDigitCall
  /\ invoice \in FacadeInvoices
  /\ codigoNumerico \in NumericCodeArguments
  /\ genResult = GenNotCalled
  /\ genAgain = GenNotCalled
  /\ \E setup \in CertificateSetups, ambiente \in EnvironmentSamples :
       /\ config = Config(setup[1], ambiente)
       /\ container = setup[2]
  /\ call = NoCall
  /\ console = <<>>
  /\ signers = <<>>
  /\ engine = Undefined
  /\ remote = NoRemoteCall
  /\ requests = <<>>

\* a direct call of generateInvoiceXML(invoice, codigoNumerico)
GenerateInvoiceXMLCall ==
  /\ genResult = GenNotCalled
  /\ genResult' = generateInvoiceXML(invoice, codigoNumerico)
  /\ UNCHANGED <<parts, keyResult, digitResult, invoice, codigoNumerico,
                  genAgain, config, container, call, console,
                  signers, engine,
                 remote, requests>>

\* a call that also stores the key it computed in the caller's invoice
GenerateInvoiceXMLAgainStoringKey ==
  /\ genResult # GenNotCalled
  /\ genAgain = GenNotCalled
  /\ genAgain' = generateInvoiceXML(invoice, codigoNumerico)
  /\ invoice' = IF genAgain'.ok
                   THEN WithTributaria(invoice, "claveAcceso", genAgain'.accessKey)
                   ELSE invoice
  /\ UNCHANGED <<parts, keyResult, digitResult, codigoNumerico, genResult,
                  config, container, call, console,
                  signers, engine,
                 remote, requests>>

\* generateInvoiceXML(invoice, codigoNumerico) called once more after it has
\* returned or thrown
GenerateInvoiceXMLAgain ==
  /\ genResult # GenNotCalled
  /\ genAgain = GenNotCalled
  /\ genAgain' = generateInvoiceXML(invoice, codigoNumerico)
  /\ UNCHANGED <<parts, keyResult, digitResult, invoice, codigoNumerico,
                  genResult, config, container, call, console,
                  signers, engine,
                 remote, requests>>

\* signXML(xmlToSign, certificatePath, certificatePassword) up to its first
\* await, called by createAndSignInvoice with the document it has built
SignXmlStart(built) ==
  IF ~Present(container)
  THEN /\ call' = [RejectedSign(ErrCertificateNotFound(config.p12Path))
                    EXCEPT !.io = <<"existsSync">>]
       /\ UNCHANGED <<console, engine>>
  ELSE LET extracted == SignXmlExtract(container[1], config.p12Password) IN
       IF Present(extracted.err)
       THEN LET caught == SignXmlCatch(extracted.err[1]) IN
            /\ call' = [RejectedSign(caught.err)
                         EXCEPT !.io = <<"existsSync", "readFileSync">>]
            /\ console' = console \o extracted.logs \o caught.logs
            /\ UNCHANGED engine
       ELSE /\ call' = [Awaiting("importKey", built.accessKey, built.xml[1],
                                 extracted.key[1], extracted.cert[1])
                         EXCEPT !.io = <<"existsSync", "readFileSync", "importKey">>]
            /\ console' = console \o extracted.logs
            /\ engine' = Some(0)

\* createAndSignInvoice(invoice, codigoNumerico) up to the first await
CreateAndSignInvoiceCall ==
  /\ call.pc = "idle"
  /\ IF ~Present(invoice.infoTributaria)
     THEN /\ call' = RejectedBuild(TypeErrorSet)
          /\ UNCHANGED <<invoice, console, engine>>
     ELSE LET built == generateInvoiceXML(WithAmbiente(invoice, config.ambiente),
                                          codigoNumerico)
          IN  /\ invoice' = WithAmbiente(invoice, config.ambiente)
              /\ IF ~built.ok
                 THEN /\ call' = RejectedBuild(built.err)
                      /\ UNCHANGED <<console, engine>>
                 ELSE SignXmlStart(built)
  /\ UNCHANGED <<parts, keyResult, digitResult, codigoNumerico, genResult,
                  genAgain, config, container, signers,
                 remote, requests>>

\* crypto.subtle.importKey settles; on success signXML goes on to Sign
ImportKeySettles ==
  /\ call.pc = "importKey"
  /\ \E outcome \in {"resolved", "rejected"} :
       IF outcome = "rejected"
       THEN LET caught == SignXmlCatch(ImportKeyMessage) IN
            /\ call' = [RejectedSign(caught.err) EXCEPT !.io = call.io]
            /\ console' = console \o caught.logs
       ELSE /\ call' = [call EXCEPT !.pc = "sign", !.io = Append(@, "Sign")]
            /\ UNCHANGED console
  /\ UNCHANGED <<parts, keyResult, digitResult, invoice, codigoNumerico,
                  genResult, genAgain, config, container, signers,
                  engine,
                 remote, requests>>

\* signedXml.Sign settles; on success the signature node is appended to the
\* root and createAndSignInvoice returns
SignSettles ==
  /\ call.pc = "sign"
  /\ \E outcome \in {"signed", "noNode", "rejected"} :
       IF outcome = "signed"
       THEN /\ call' = [Resolved(call.accessKey,
                                 AppendChild(call.unsignedXml[1],
                                             SignatureNode(call.privateKey[1],
                                                           call.certificate[1].base64)))
                         EXCEPT !.io = call.io]
            /\ UNCHANGED console
       ELSE LET caught == SignXmlCatch(IF outcome = "noNode" THEN ErrNoSignatureNode
                                       ELSE SignMessage) IN
            /\ call' = [RejectedSign(caught.err) EXCEPT !.io = call.io]
            /\ console' = console \o caught.logs
  /\ UNCHANGED <<parts, keyResult, digitResult, invoice, codigoNumerico,
                  genResult, genAgain, config, container, signers,
                  engine,
                 remote, requests>>

Next ==
  \/ GenerateInvoiceXMLCall
  \/ CreateAndSignInvoiceCall
  \/ ImportKeySettles
  \/ SignSettles

Spec == Init /\ [][Next]_vars

(***************************************************************************)
(* generateInvoiceXML called on its own, once and once more, on four       *)
(* families of invoices: line items at several precisions, invoices        *)
(* breaking several validation rules at once, payments and line items      *)
(* around their declared total, and optional fields and blocks absent,     *)
(* empty or filled.                                                        *)
(***************************************************************************)
NextBuild == GenerateInvoiceXMLCall \/ GenerateInvoiceXMLAgain

\* everything but the invoice is fixed: a valid numeric code, no facade call
InitBuild ==
  /\ parts = InvoiceKeyParts(BaseInvoice, StringArgument(ValidCode))
  /\ keyResult = NotCalled
  /\ digitResult = NoDigitCall
  /\ codigoNumerico = StringArgument(ValidCode)
  /\ genResult = GenNotCalled
  /\ genAgain = GenNotCalled
  /\ config = NoConfig
  /\ container = Undefined
  /\ call = NoCall
  /\ console = <<>>
  /\ signers = <<>>
  /\ engine = Undefined
  /\ remote = NoRemoteCall
  /\ requests = <<>>

\* the sequences over S of length lo to hi
SeqsOf(S, lo, hi) == UNION { [1..n -> S] : n \in lo..hi }

VersionSamples == {"1.0.0", "1.1.0", "2.0.0", "2.1.0"}

\* line items with quantities 1.5, 2, 0.125, 2.675 and 0.1234565 and unit
\* prices 40.00 and 0.999999
PrecisionInvoices ==
  LET quantities == { Lit(15, 1), Lit(2, 0), Lit(125, 3), Lit(2675, 3),
                      Lit(1234565, 7) }
      prices == { Amt(4000), Lit(999999, 6) }
  IN  { [ WithFactura(BaseInvoice, "totalSinImpuestos", Amt(5000 * Len(lines)))
            EXCEPT !.version = v,
                   !.detalles = Some([i \in DOMAIN lines |->
                                        Detalle(lines[i][1], lines[i][2], Amt(5000))]) ] :
          v \in VersionSamples,
          lines \in SeqsOf(quantities \X prices, 1, MaxDetalles) }

InitPrecision == invoice \in PrecisionInvoices /\ InitBuild

SpecPrecision == InitPrecision /\ [][NextBuild]_vars

\* invoices that break any number of the validation rules, of the four
\* versions of InvoiceVersion and of a version string outside them
ValidationInvoices ==
  LET tributarias ==
        {Undefined}
          \cup { Some([BaseInfoTributaria EXCEPT !.codDoc = c]) :
                   c \in {<<"0", "1">>, <<"0", "4">>} }
      facturas ==
        {Undefined}
          \cup { Some([BaseInfoFactura EXCEPT !.pagos = pg, !.placa = pl,
                                              !.codDocReembolso = cr]) :
                   pg \in {Undefined, Some(<<Pago(Amt(10000))>>),
                           Some(<<Pago(Amt(9000))>>)},
                   pl \in {Undefined, Some(<<>>), Some(<<"ABC1234">>)},
                   cr \in {Undefined, Some(<<>>), Some(<<"41">>)} }
      lines ==
        { Undefined, Some(<<>>),
          Some(<< Detalle(Lit(25, 1), Amt(4000), Amt(10000)) >>),
          Some(<< Detalle(Lit(2, 0), Amt(4000), Amt(8000)) >>) }
      \* a block the builder only tests for presence
      blocks == {Undefined, Some(<<"block">>)}
  IN  { [ version |-> v, infoTributaria |-> it, infoFactura |-> inf,
          detalles |-> det, retenciones |-> Undefined, reembolsos |-> re,
          infoSustitutivaGuiaRemision |-> gr,
          otrosRubrosTerceros |-> ot, infoAdicional |-> Undefined ] :
          v \in VersionSamples \cup {"3.0.0"}, it \in tributarias,
          inf \in facturas, det \in lines, re \in blocks, gr \in blocks,
          ot \in blocks }

InitValid == invoice \in ValidationInvoices /\ InitBuild

SpecValid == InitValid /\ [][NextBuild]_vars

\* payments against importeTotal and line items against totalSinImpuestos,
\* the amounts in cents
TotalsInvoices ==
  LET amounts == {1, 10, 20, 5000, 10000}
      totals == {0, 1, 2, 30, 31, 10000, 10001, 10002, 15000}
      pagoLists ==
        { [i \in DOMAIN us |-> Pago(Amt(us[i]))] :
            us \in SeqsOf(amounts, 0, MaxPagos) }
      detalleLists ==
        { [i \in DOMAIN us |-> Detalle(Lit(1, 0), Amt(us[i]), Amt(us[i]))] :
            us \in SeqsOf(amounts, 1, MaxDetalles) }
  IN  { WithFactura(WithFactura(BaseInvoice, "pagos", Some(ps)),
                    "importeTotal", Amt(t)) :
          ps \in pagoLists, t \in totals }
        \cup
      { [ WithFactura(BaseInvoice, "totalSinImpuestos", Amt(t))
            EXCEPT !.detalles = Some(ds) ] :
          ds \in detalleLists, t \in totals }

InitTotals == invoice \in TotalsInvoices /\ InitBuild

SpecTotals == InitTotals /\ [][NextBuild]_vars

\* Invoices with their optional parts absent, empty or filled.  In the first
\* family one group of optional fields takes every combination while the
\* other groups are all absent, all empty or all filled; in the second the
\* optional top-level blocks are present or not; in the third two pagos and
\* two line items differ in their optional fields.
OptionalInvoices ==
  LET fields == { "nombreComercial", "agenteRetencion", "contribuyenteRimpe",
                  "contribuyenteEspecial", "direccionComprador", "plazo",
                  "unidadTiempo", "codigoAuxiliar", "detallesAdicionales",
                  "infoAdicional" }
      groups == { {"nombreComercial", "agenteRetencion", "contribuyenteRimpe"},
                  {"contribuyenteEspecial", "direccionComprador"},
                  {"plazo", "unidadTiempo"},
                  {"codigoAuxiliar", "detallesAdicionales"},
                  {"infoAdicional"} }
      \* 0: undefined, 1: '' (0 for a number, [] for a list), 2: a value
      Str(level, text) ==
        IF level = 0 THEN Undefined ELSE IF level = 1 THEN Some(<<>>) ELSE Some(<<text>>)
      entry == [nombre |-> <<"Email">>, valor |-> <<"a@b.ec">>]
      Filled(o) ==
        [ BaseInvoice EXCEPT
            !.infoTributaria =
               Some([ BaseInfoTributaria EXCEPT
                        !.nombreComercial = Str(o["nombreComercial"], "ACME"),
                        !.agenteRetencion = Str(o["agenteRetencion"], "1"),
                        !.contribuyenteRimpe =
                           Str(o["contribuyenteRimpe"], "CONTRIBUYENTE REGIMEN RIMPE") ]),
            !.infoFactura =
               Some([ BaseInfoFactura EXCEPT
                        !.contribuyenteEspecial = Str(o["contribuyenteEspecial"], "5368"),
                        !.direccionComprador = Str(o["direccionComprador"], "Av. Amazonas"),
                        !.pagos =
                           Some(<< [ Pago(Amt(10000)) EXCEPT
                                       !.plazo = IF o["plazo"] = 0 THEN Undefined
                                                 ELSE IF o["plazo"] = 1 THEN Some(0)
                                                 ELSE Some(30),
                                       !.unidadTiempo = Str(o["unidadTiempo"], "dias") ] >>) ]),
            !.detalles =
               Some(<< [ Detalle(Lit(25, 1), Amt(4000), Amt(10000)) EXCEPT
                           !.codigoAuxiliar = Str(o["codigoAuxiliar"], "AUX1"),
                           !.detallesAdicionales =
                              IF o["detallesAdicionales"] = 0 THEN Undefined
                              ELSE IF o["detallesAdicionales"] = 1 THEN Some(<<>>)
                              ELSE Some(<<entry>>) ] >>),
            !.infoAdicional =
               IF o["infoAdicional"] = 0 THEN Undefined
               ELSE IF o["infoAdicional"] = 1 THEN Some([campos |-> <<>>])
               ELSE Some([campos |-> <<entry>>]) ]
      \* a pago and a line item with their optional fields at one level
      Item(pago, level) ==
        [ pago EXCEPT
            !.plazo = IF level = 0 THEN Undefined
                      ELSE IF level = 1 THEN Some(0) ELSE Some(30),
            !.unidadTiempo = Str(level, "dias") ]
      Line(detail, level) ==
        [ detail EXCEPT
            !.codigoAuxiliar = Str(level, "AUX1"),
            !.detallesAdicionales =
               IF level = 0 THEN Undefined
               ELSE IF level = 1 THEN Some(<<>>) ELSE Some(<<entry>>) ]
      profiles ==
        { o \in [fields -> 0..2] :
            \E rest \in 0..2 :
              Cardinality({ g \in groups : \E f \in g : o[f] # rest }) <= 1 }
      blocks == {Undefined, Some(<<"block">>)}
  IN  { Filled(o) : o \in profiles }
        \cup
      { [ WithFactura(BaseInvoice, "codDocReembolso", Some(<<"41">>)) EXCEPT
            !.version = v, !.retenciones = rt, !.reembolsos = re,
            !.infoSustitutivaGuiaRemision = gr, !.otrosRubrosTerceros = ot,
            !.infoAdicional = ia ] :
          v \in {"1.0.0", "2.1.0"}, rt \in blocks, re \in blocks, gr \in blocks,
          ot \in blocks, ia \in {Undefined, Some([campos |-> <<entry>>])} }
        \cup
      { [ BaseInvoice EXCEPT
            !.infoFactura =
               Some([ BaseInfoFactura EXCEPT
                        !.pagos = Some(<< Item(Pago(Amt(6000)), a),
                                          Item(Pago(Amt(4000)), b) >>) ]),
            !.detalles =
               Some(<< Line(Detalle(Lit(10, 1), Amt(6000), Amt(6000)), b),
                       Line(Detalle(Lit(10, 1), Amt(4000), Amt(4000)), a) >>) ] :
          a \in 0..2, b \in 0..2 }

InitOptional == invoice \in OptionalInvoices /\ InitBuild

SpecOptional == InitOptional /\ [][NextBuild]_vars

(***************************************************************************)
(* signXML called directly, twice, the two invocations running             *)
(* concurrently: each runs from its call to its first await, from there to *)
(* its second, and from there to its end, the steps of the two             *)
(* interleaving in any order.                                              *)
(***************************************************************************)
\* the invocation ended by throwing message
SignerThrew(signer, message) ==
  [signer EXCEPT !.pc = "done", !.err = message, !.privateKey = <<>>,
                 !.certificate = <<>>]

\* two invocations, for two documents, on containers and passwords of their
\* own
InitConcurrent ==
  /\ parts = InvoiceKeyParts(BaseInvoice, StringArgument(ValidCode))
  /\ keyResult = NotCalled
  /\ digitResult = NoDigitCall
  /\ invoice = NoInvoice
  /\ codigoNumerico = NoArgument
  /\ genResult = GenNotCalled
  /\ genAgain = GenNotCalled
  /\ config = NoConfig
  /\ container = Undefined
  /\ call = NoCall
  /\ console = <<>>
  /\ engine = Undefined
  /\ remote = NoRemoteCall
  /\ requests = <<>>
  /\ LET first == generateInvoiceXML(BaseInvoice, StringArgument(ValidCode)).xml[1]
         second == generateInvoiceXML([BaseInvoice EXCEPT !.version = "2.1.0"],
                                      StringArgument(ValidCode)).xml[1]
         \* an invocation signXML(xmlToSign, certificatePath,
         \* certificatePassword) that has not started; p12 is what the file
         \* system holds at the path
         Signer(xmlToSign, certificatePath, p12, certificatePassword) ==
           [ xmlToSign |-> xmlToSign, certificatePath |-> certificatePath,
             p12 |-> p12, certificatePassword |-> certificatePassword,
             pc |-> "idle", privateKey |-> <<>>, certificate |-> <<>>,
             ok |-> FALSE, err |-> <<>>, signedXml |-> <<>> ]
         legacy == [GoodContainer EXCEPT !.shroudedKeyBags = << Undefined >>,
                                         !.keyBags = << Some(Key2) >>]
     IN  \E a \in { <<Some(GoodContainer), RightPassword>>,
                     <<Some(GoodContainer), WrongPassword>>,
                     <<Undefined, RightPassword>> },
            b \in { <<Some(legacy), RightPassword>>,
                     <<Some([legacy EXCEPT !.certBags = <<>>]), RightPassword>> } :
           signers = << Signer(first, <<"a.p12">>, a[1], a[2]),
                        Signer(second, <<"b.p12">>, b[1], b[2]) >>

\* invocation i from its call to the await of importKey
SignXmlCall(i) ==
  /\ signers[i].pc = "idle"
  /\ LET signer == signers[i] IN
     IF ~Present(signer.p12)
     THEN /\ signers' = [signers EXCEPT ![i] =
                           SignerThrew(signer, ErrCertificateNotFound(signer.certificatePath))]
          /\ UNCHANGED <<console, engine>>
     ELSE LET extracted == SignXmlExtract(signer.p12[1], signer.certificatePassword) IN
          IF Present(extracted.err)
          THEN LET caught == SignXmlCatch(extracted.err[1]) IN
               /\ signers' = [signers EXCEPT ![i] = SignerThrew(signer, caught.err)]
               /\ console' = console \o extracted.logs \o caught.logs
               /\ UNCHANGED engine
          ELSE /\ signers' = [signers EXCEPT ![i] =
                                [signer EXCEPT !.pc = "importKey",
                                               !.privateKey = extracted.key,
                                               !.certificate = extracted.cert]]
               /\ console' = console \o extracted.logs
               /\ engine' = Some(i)
  /\ UNCHANGED <<parts, keyResult, digitResult, invoice, codigoNumerico, genResult,
                  genAgain, config, container, call,
                 remote, requests>>

\* crypto.subtle.importKey of invocation i settles
SignXmlImportKeySettles(i) ==
  /\ signers[i].pc = "importKey"
  /\ \E outcome \in {"resolved", "rejected"} :
       IF outcome = "rejected"
       THEN LET caught == SignXmlCatch(ImportKeyMessage) IN
            /\ signers' = [signers EXCEPT ![i] = SignerThrew(@, caught.err)]
            /\ console' = console \o caught.logs
       ELSE /\ signers' = [signers EXCEPT ![i].pc = "sign"]
            /\ UNCHANGED console
  /\ UNCHANGED <<parts, keyResult, digitResult, invoice, codigoNumerico, genResult,
                  genAgain, config, container, call, engine,
                 remote, requests>>

\* signedXml.Sign of invocation i settles
SignXmlSignSettles(i) ==
  /\ signers[i].pc = "sign"
  /\ \E outcome \in {"signed", "noNode", "rejected"} :
       IF outcome = "signed"
       THEN /\ signers' =
                 [signers EXCEPT ![i] =
                    [@ EXCEPT !.pc = "done", !.ok = TRUE,
                              !.privateKey = <<>>, !.certificate = <<>>,
                              !.signedXml =
                                 << AppendChild(signers[i].xmlToSign,
                                                SignatureNode(signers[i].privateKey[1],
                                                              signers[i].certificate[1].base64)) >>]]
            /\ UNCHANGED console
       ELSE LET caught == SignXmlCatch(IF outcome = "noNode" THEN ErrNoSignatureNode
                                       ELSE SignMessage) IN
            /\ signers' = [signers EXCEPT ![i] = SignerThrew(@, caught.err)]
            /\ console' = console \o caught.logs
  /\ UNCHANGED <<parts, keyResult, digitResult, invoice, codigoNumerico, genResult,
                  genAgain, config, container, call, engine,
                 remote, requests>>

NextConcurrent ==
  \/ \E i \in DOMAIN signers : SignXmlCall(i)
  \/ \E i \in DOMAIN signers : SignXmlImportKeySettles(i)
  \/ \E i \in DOMAIN signers : SignXmlSignSettles(i)

SpecConcurrent == InitConcurrent /\ [][NextConcurrent]_vars

(***************************************************************************)
(* The services of the SRI called after a createAndSignInvoice that has    *)
(* returned: sendSignedXml and checkAuthorization called directly with an  *)
(* ambiente of any type, or through sendInvoice and authorizeInvoice of    *)
(* the OpenFactura instance.  A call runs from its start to its await of   *)
(* axios.post, and from the settling of the request to its end; what the   *)
(* request settles to is the choice of the SRI and of the network.         *)
(***************************************************************************)
\* the ambiente arguments of a direct call: strings, a number, nothing
AmbienteArguments ==
  { StringArgument(<<"1">>), StringArgument(<<"2">>), StringArgument(<<"3">>),
    StringArgument(<<"1", " ">>), [type |-> "number", str |-> <<"1">>], NoArgument }

\* what the reception service answers, and the failures of the request
ReceptionSettlings ==
  LET Mensaje(id, text, info) ==
        Ele("mensaje", <<Txt("identificador", id), Txt("mensaje", text)>>
                         \o info \o <<Txt("tipo", <<"ERROR">>)>>)
      Respuesta(estado, mensajes) ==
        HttpResponse(
          Ele("#document",
              <<Ele("RespuestaRecepcionComprobante",
                    estado \o <<Ele("comprobantes",
                                    IF mensajes = <<>> THEN <<>>
                                    ELSE <<Ele("comprobante",
                                               <<Ele("mensajes", mensajes)>>)>>)>>)>>))
  IN  { Respuesta(<<Txt("estado", <<"RECIBIDA">>)>>, <<>>),
        Respuesta(<<Txt("estado", <<"DEVUELTA">>)>>,
                  <<Mensaje(<<"43">>, <<"CLAVE ACCESO REGISTRADA">>, <<>>)>>),
        Respuesta(<<Txt("estado", <<"DEVUELTA">>)>>,
                  <<Mensaje(<<"35">>, <<"ARCHIVO NO CUMPLE ESTRUCTURA XML">>,
                            <<Txt("informacionAdicional", <<"Se encontro el error">>)>>),
                    Mensaje(<<"45">>, <<"ERROR SECUENCIAL REGISTRADO">>, <<>>)>>),
        Respuesta(<<>>, <<>>),
        AxiosError(<<"Request failed with status code 500">>,
                   Some(<<"Unmarshalling Error">>)),
        AxiosError(<<"connect ETIMEDOUT">>, Undefined) }

\* what the authorization service answers, and the failures of the request
AuthorizationSettlings ==
  LET Mensaje(id, text, info) ==
        Ele("mensaje", <<Txt("identificador", id), Txt("mensaje", text)>>
                         \o info \o <<Txt("tipo", <<"ERROR">>)>>)
      Filled == <<Txt("numeroAutorizacion", <<"1506202401179001234500110010010000000011234567811">>),
                  Txt("fechaAutorizacion", <<"2024-06-15T10:15:30-05:00">>),
                  Txt("ambiente", <<"PRUEBAS">>),
                  Txt("comprobante", <<"<factura id=\"comprobante\">">>)>>
      Respuesta(numero, autorizaciones) ==
        HttpResponse(
          Ele("#document",
              <<Ele("RespuestaAutorizacionComprobante",
                    numero \o <<Ele("autorizaciones", autorizaciones)>>)>>))
      Autorizacion(estado, fields, mensajes) ==
        <<Ele("autorizacion", estado \o fields \o <<Ele("mensajes", mensajes)>>)>>
      Uno == <<Txt("numeroComprobantes", <<"1">>)>>
  IN  { Respuesta(Uno, Autorizacion(<<Txt("estado", <<"AUTORIZADO">>)>>, Filled, <<>>)),
        Respuesta(Uno, Autorizacion(<<Txt("estado", <<"AUTORIZADO">>)>>,
                                    <<Txt("numeroAutorizacion", <<>>), Filled[2], Filled[3]>>,
                                    <<>>)),
        Respuesta(Uno, Autorizacion(<<Txt("estado", <<"NO AUTORIZADO">>)>>,
                                    <<Filled[2], Filled[3], Filled[4]>>,
                                    <<Mensaje(<<"39">>, <<"FIRMA INVALIDA">>,
                                              <<Txt("informacionAdicional",
                                                    <<"La firma es invalida">>)>>),
                                      Mensaje(<<"58">>, <<"ERROR EN LA ESTRUCTURA DE CLAVE ACCESO">>,
                                              <<>>)>>)),
        Respuesta(Uno, Autorizacion(<<Txt("estado", <<"NO AUTORIZADO">>)>>,
                                    <<Filled[2], Filled[3]>>,
                                    <<Mensaje(<<"56">>, <<"ESTABLECIMIENTO CERRADO">>, <<>>)>>)),
        Respuesta(Uno, Autorizacion(<<Txt("estado", <<"NO AUTORIZADO">>)>>, <<>>, <<>>)),
        Respuesta(Uno, Autorizacion(<<Txt("estado", <<"EN PROCESO">>)>>, <<>>, <<>>)),
        Respuesta(Uno, Autorizacion(<<>>, Filled, <<>>)),
        Respuesta(<<Txt("numeroComprobantes", <<"0">>)>>, <<>>),
        Respuesta(Uno, <<>>),
        Respuesta(<<>>, <<>>),
        AxiosError(<<"Request failed with status code 500">>,
                   Some(<<"Unmarshalling Error">>)),
        AxiosError(<<"connect ETIMEDOUT">>, Undefined) }

\* the OpenFactura instance constructed, and its createAndSignInvoice
\* returned for the invoice
InitRemote ==
  /\ parts = InvoiceKeyParts(BaseInvoice, StringArgument(ValidCode))
  /\ keyResult = NotCalled
  /\ digitResult = NoDigitCall
  /\ codigoNumerico = StringArgument(ValidCode)
  /\ genResult = GenNotCalled
  /\ genAgain = GenNotCalled
  /\ container = Some(GoodContainer)
  /\ \E ambiente \in EnvironmentSamples \cup {<<"3">>} :
       LET built == generateInvoiceXML(WithAmbiente(BaseInvoice, ambiente), codigoNumerico)
       IN  /\ config = Config(RightPassword, ambiente)
           /\ invoice = WithAmbiente(BaseInvoice, ambiente)
           /\ call = Resolved(built.accessKey,
                              AppendChild(built.xml[1],
                                          SignatureNode(Key1, Cert1.base64)))
  /\ console = <<>>
  /\ signers = <<>>
  /\ engine = Some(0)
  /\ remote = NoRemoteCall
  /\ requests = <<>>

\* the request of sendSignedXml: the endpoint of the ambiente and the
\* envelope with the document in base64
ReceptionRequest(signedXml, ambiente) ==
  [ endpoint |-> EndpointFor(receptionEndpoints, ambiente),
    operation |-> "validarComprobante",
    payload |-> [base64Of |-> signedXml] ]

\* the request of checkAuthorization: the endpoint of the ambiente and the
\* envelope with the access key
AuthorizationRequest(accessKey, ambiente) ==
  [ endpoint |-> EndpointFor(authorizationEndpoints, ambiente),
    operation |-> "autorizacionComprobante",
    payload |-> [claveAccesoComprobante |-> accessKey] ]

\* a direct call of sendSignedXml(signedXml, ambiente) with the signed
\* document, up to its await of axios.post
SendSignedXmlCall ==
  /\ remote.pc = "idle"
  /\ \E ambiente \in AmbienteArguments :
       /\ remote' = Posted("sendSignedXml", "sendSignedXml", call.signedXml[1], ambiente)
       /\ requests' = Append(requests, ReceptionRequest(call.signedXml[1], ambiente))
  /\ UNCHANGED <<parts, keyResult, digitResult, invoice, codigoNumerico, genResult,
                  genAgain, config, container, call, console, signers, engine>>

\* a direct call of checkAuthorization(accessKey, ambiente) with the access
\* key, up to its await of axios.post
CheckAuthorizationCall ==
  /\ remote.pc = "idle"
  /\ \E ambiente \in AmbienteArguments :
       /\ remote' = Posted("checkAuthorization", "checkAuthorization", call.accessKey,
                           ambiente)
       /\ requests' = Append(requests, AuthorizationRequest(call.accessKey, ambiente))
  /\ UNCHANGED <<parts, keyResult, digitResult, invoice, codigoNumerico, genResult,
                  genAgain, config, container, call, console, signers, engine>>

\* OpenFactura.sendInvoice(signedXml): sendSignedXml with the ambiente of
\* the configuration, up to its await
SendInvoice ==
  /\ remote.pc = "idle"
  /\ remote' = Posted("sendInvoice", "sendSignedXml", call.signedXml[1],
                      StringArgument(config.ambiente))
  /\ requests' = Append(requests,
                        ReceptionRequest(call.signedXml[1],
                                         StringArgument(config.ambiente)))
  /\ UNCHANGED <<parts, keyResult, digitResult, invoice, codigoNumerico, genResult,
                  genAgain, config, container, call, console, signers, engine>>

\* OpenFactura.authorizeInvoice(accessKey): checkAuthorization with the
\* ambiente of the configuration, up to its await
AuthorizeInvoice ==
  /\ remote.pc = "idle"
  /\ remote' = Posted("authorizeInvoice", "checkAuthorization", call.accessKey,
                      StringArgument(config.ambiente))
  /\ requests' = Append(requests,
                        AuthorizationRequest(call.accessKey,
                                             StringArgument(config.ambiente)))
  /\ UNCHANGED <<parts, keyResult, digitResult, invoice, codigoNumerico, genResult,
                  genAgain, config, container, call, console, signers, engine>>

\* the request of sendSignedXml settles and the call runs to its end
SendSignedXmlSettles ==
  /\ remote.pc = "post"
  /\ remote.fn = "sendSignedXml"
  /\ \E settled \in ReceptionSettlings :
       LET outcome == ReceptionOutcome(settled)
       IN  remote' = [remote EXCEPT !.pc = "done", !.received = Some(settled),
                                    !.ok = outcome.ok, !.value = outcome.value,
                                    !.err = outcome.err]
  /\ UNCHANGED <<parts, keyResult, digitResult, invoice, codigoNumerico, genResult,
                  genAgain, config, container, call, console, signers, engine,
                  requests>>

\* the request of checkAuthorization settles and the call runs to its end
CheckAuthorizationSettles ==
  /\ remote.pc = "post"
  /\ remote.fn = "checkAuthorization"
  /\ \E settled \in AuthorizationSettlings :
       LET outcome == AuthorizationOutcome(remote.argument, settled)
       IN  remote' = [remote EXCEPT !.pc = "done", !.received = Some(settled),
                                    !.ok = outcome.ok, !.value = outcome.value,
                                    !.err = outcome.err]
  /\ UNCHANGED <<parts, keyResult, digitResult, invoice, codigoNumerico, genResult,
                  genAgain, config, container, call, console, signers, engine,
                  requests>>

NextRemote ==
  \/ SendSignedXmlCall
  \/ CheckAuthorizationCall
  \/ SendInvoice
  \/ AuthorizeInvoice
  \/ SendSignedXmlSettles
  \/ CheckAuthorizationSettles

SpecRemote == InitRemote /\ [][NextRemote]_vars

(***************************************************************************)
(* Claims about getCheckDigit and getAccessKey (specification SpecKey)     *)
(***************************************************************************)
First48(k) == SubSeq(k, 1, KeyLen)

\* a string with every '/' taken out
WithoutSlashes(s) == SelectSeq(s, LAMBDA c : c # "/")

\* the eight components in their fixed order, each at its fixed width
ExpectedFirst48(p) ==
  WithoutSlashes(p.date) \o PadStart(p.voucherType, 2) \o p.ruc
    \o PadStart(p.environment, 1) \o PadStart(p.series, 6)
    \o PadStart(p.sequence, 9) \o PadStart(p.numericCode, 8)
    \o PadStart(p.emissionType, 1)

ExampleParts ==
  [ date |-> <<"1", "5", "/", "0", "6", "/", "2", "0", "2", "4">>,
    voucherType |-> <<"0", "1">>,
    ruc |-> <<"1", "7", "9", "0", "0", "1", "2", "3", "4", "5", "0", "0", "1">>,
    environment |-> <<"1">>,
    series |-> <<"0", "0", "1", "0", "0", "1">>,
    sequence |-> <<"1">>,
    numericCode |-> <<"1", "2", "3", "4", "5", "6", "7", "8">>,
    emissionType |-> <<"1">> ]

PartsAllDigits(p) ==
  /\ AllDigits(WithoutSlashes(p.date)) /\ AllDigits(p.voucherType)
  /\ AllDigits(p.ruc) /\ AllDigits(p.environment) /\ AllDigits(p.series)
  /\ AllDigits(p.sequence) /\ AllDigits(p.numericCode)
  /\ AllDigits(p.emissionType)

\* C1: whenever getAccessKey returns, the first 48 characters of the key are
\* the date without its '/' followed by the padded components in the fixed
\* order, the last character is getCheckDigit of those 48 characters, and
\* the example parts give the example's 48 characters.
C1_KeyIsPartsThenCheckDigit ==
  keyResult.ok =>
    LET k == keyResult.val IN
    /\ First48(k) = ExpectedFirst48(parts)
    /\ <<k[Len(k)]>> = NumToStr(getCheckDigit(First48(k)))
    /\ (parts = ExampleParts => First48(k) = ExampleKey48)

\* C1 on the parts made of digits only: there the statement holds.
C1_HoldsForDigitParts ==
  (keyResult.ok /\ PartsAllDigits(parts)) => C1_KeyIsPartsThenCheckDigit

C1_DigitPartsKeyReturned ==
  keyResult.ok /\ parts = ExampleParts

\* The reference algorithm: weights cycling 7,6,5,4,3,2 from position 0, the
\* sum modulo 11, 11 minus the remainder, 11 read as 0 and 10 as 1.
RefWeight(i) == 7 - (i % 6)

\* the digits at the 0-based positions c, c+6, ..., c+42, which share a weight
RefClassSum(s, c) ==
  DigitVal(s[c + 1]) + DigitVal(s[c + 7]) + DigitVal(s[c + 13])
    + DigitVal(s[c + 19]) + DigitVal(s[c + 25]) + DigitVal(s[c + 31])
    + DigitVal(s[c + 37]) + DigitVal(s[c + 43])

RefSum(s) ==
  RefWeight(0) * RefClassSum(s, 0) + RefWeight(1) * RefClassSum(s, 1)
    + RefWeight(2) * RefClassSum(s, 2) + RefWeight(3) * RefClassSum(s, 3)
    + RefWeight(4) * RefClassSum(s, 4) + RefWeight(5) * RefClassSum(s, 5)

RefRaw(s) == 11 - (RefSum(s) % 11)

RefCheckDigit(s) ==
  CASE RefRaw(s) = 11 -> 0
    [] RefRaw(s) = 10 -> 1
    [] OTHER -> RefRaw(s)

Is48Digits(s) == Len(s) = KeyLen /\ AllDigits(s)

\* C2: on every 48-digit input getCheckDigit returns the reference
\* algorithm's digit, called directly or from getAccessKey.
C2_CheckDigitIsReference ==
  /\ (digitResult.called /\ Is48Digits(digitResult.arg)) =>
        digitResult.res = Num(RefCheckDigit(digitResult.arg))
  /\ (keyResult.ok /\ Is48Digits(First48(keyResult.val))) =>
        keyResult.val =
          First48(keyResult.val) \o NatToStr(RefCheckDigit(First48(keyResult.val)))

\* a 48-digit input whose raw value is 10, the case read as 1
C2_RawTenReached ==
  /\ digitResult.called /\ Is48Digits(digitResult.arg)
  /\ RefRaw(digitResult.arg) = 10
  /\ digitResult.res = Num(1)

\* a 48-digit input whose raw value is 11, the case read as 0
RawElevenReached ==
  /\ digitResult.called /\ Is48Digits(digitResult.arg)
  /\ RefRaw(digitResult.arg) = 11
  /\ digitResult.res = Num(0)

\* C3: on every 48-digit input the check digit is one decimal digit, 0..9,
\* and the call made from getAccessKey and a direct call on the same 48
\* digits give the same digit.
C3_CheckDigitIsOneDigit ==
  /\ (digitResult.called /\ Is48Digits(digitResult.arg)) =>
        (~digitResult.res.nan /\ digitResult.res.v \in 0..9)
  /\ (keyResult.ok /\ Is48Digits(First48(keyResult.val))) =>
        (Len(keyResult.val) = KeyLen + 1 /\ IsDigit(keyResult.val[KeyLen + 1]))
  /\ (digitResult.called /\ keyResult.ok /\ Is48Digits(digitResult.arg)
        /\ digitResult.arg = First48(keyResult.val)) =>
        keyResult.val = digitResult.arg \o NumToStr(digitResult.res)

C3_BothCallsOnSameDigits ==
  /\ digitResult.called /\ keyResult.ok /\ Is48Digits(digitResult.arg)
  /\ digitResult.arg = First48(keyResult.val)

\* C4: whenever getAccessKey returns, whatever the parts, the key is exactly
\* 49 characters, all decimal digits, with every field at its fixed place:
\* date 1-8, document type 9-10, tax ID 11-23, environment 24, series 25-30,
\* sequence 31-39, numeric code 40-47, emission type 48, check digit 49.
C4_KeyIs49DigitsInFixedFields ==
  keyResult.ok =>
    LET k == keyResult.val IN
    /\ Len(k) = 49
    /\ AllDigits(k)
    /\ SubSeq(k, 1, 8) = WithoutSlashes(parts.date)
    /\ SubSeq(k, 9, 10) = PadStart(parts.voucherType, 2)
    /\ SubSeq(k, 11, 23) = parts.ruc
    /\ SubSeq(k, 24, 24) = PadStart(parts.environment, 1)
    /\ SubSeq(k, 25, 30) = PadStart(parts.series, 6)
    /\ SubSeq(k, 31, 39) = PadStart(parts.sequence, 9)
    /\ SubSeq(k, 40, 47) = PadStart(parts.numericCode, 8)
    /\ SubSeq(k, 48, 48) = PadStart(parts.emissionType, 1)
    /\ <<k[49]>> = NumToStr(getCheckDigit(First48(k)))

\* C4 without the fixed places: a key of digits that is not 49 characters long
\* is never returned.
KeyOfDigitsIs49Long ==
  (keyResult.ok /\ AllDigits(keyResult.val)) => Len(keyResult.val) = 49

\* a key is returned whose fields are all digits and not at their places
MisalignedKeyReturned ==
  /\ keyResult.ok /\ AllDigits(keyResult.val)
  /\ SubSeq(keyResult.val, 11, 23) # parts.ruc

\* a key is returned that ends in NaN
NaNKeyReturned ==
  keyResult.ok /\ Len(keyResult.val) = 51


(***************************************************************************)
(* Claims about generateInvoiceXML and createAndSignInvoice                *)
(***************************************************************************)
\* the elements called name in the tree under node, in document order
RECURSIVE NodesNamed(_, _), NodesNamedIn(_, _)
NodesNamed(node, name) ==
  (IF node.name = name THEN <<node>> ELSE <<>>) \o NodesNamedIn(node.kids, name)

NodesNamedIn(kids, name) ==
  IF kids = <<>> THEN <<>>
  ELSE NodesNamed(Head(kids), name) \o NodesNamedIn(Tail(kids), name)

\* the text of the one element called name under node
TextOf(node, name) == NodesNamed(node, name)[1].text

\* the document holds one claveAcceso, the key handed back, and that key is
\* getAccessKey of the invoice's fields and the numeric code
KeyIsOfInvoice(inv, cod, xml, accessKey) ==
  LET nodes == NodesNamed(xml, "claveAcceso")
      key == getAccessKey(
               [ date |-> inv.infoFactura[1].fechaEmision,
                 voucherType |-> inv.infoTributaria[1].codDoc,
                 ruc |-> inv.infoTributaria[1].ruc,
                 environment |-> inv.infoTributaria[1].ambiente,
                 series |-> inv.infoTributaria[1].estab \o inv.infoTributaria[1].ptoEmi,
                 sequence |-> inv.infoTributaria[1].secuencial,
                 numericCode |-> cod.str,
                 emissionType |-> inv.infoTributaria[1].tipoEmision ])
  IN  /\ Len(nodes) = 1
      /\ nodes[1].text = accessKey
      /\ key.ok
      /\ key.val = accessKey

\* C5: every step in which generateInvoiceXML returns leaves a document with
\* exactly one claveAcceso node whose text is the returned accessKey, and that
\* key is getAccessKey of the invoice's fechaEmision, codDoc, ruc, ambiente,
\* estab+ptoEmi, secuencial, the numeric code and tipoEmision, whatever the
\* caller had put in infoTributaria.claveAcceso; every step in which
\* createAndSignInvoice returns does the same for its key and its signed
\* document.
C5_KeyComputedFromInvoice ==
  [][ /\ (genResult'.ok /\ ~genResult.ok) =>
           KeyIsOfInvoice(invoice, codigoNumerico, genResult'.xml[1],
                          genResult'.accessKey)
      /\ (call'.ok /\ ~call.ok) =>
           KeyIsOfInvoice(invoice', codigoNumerico, call'.signedXml[1],
                          call'.accessKey) ]_vars

C5_StaleCallerKeyReplaced ==
  /\ genResult.ok
  /\ call.ok
  /\ invoice.infoTributaria[1].claveAcceso = StaleKey
  /\ genResult.accessKey # StaleKey
  /\ call.accessKey # StaleKey
  /\ TextOf(call.signedXml[1], "claveAcceso") = call.accessKey

\* a string of exactly eight decimal digits
IsEightDigits(cod) ==
  /\ cod.type = "string"
  /\ Len(cod.str) = 8
  /\ \A i \in 1..Len(cod.str) :
       cod.str[i] \in {"0", "1", "2", "3", "4", "5", "6", "7", "8", "9"}

RECURSIVE SumCents(_)
SumCents(amounts) ==
  IF amounts = <<>> THEN 0 ELSE Head(amounts).c + SumCents(Tail(amounts))

\* the distance in cents between the sum of a list of amounts and a total
CentsApart(amounts, declared) ==
  LET d == SumCents(amounts) - declared.c IN IF d < 0 THEN -d ELSE d

\* The seven rules as the claim words them; 0 when none is violated.
FirstViolatedRule(inv) ==
  IF \/ inv.infoTributaria = Undefined \/ inv.infoFactura = Undefined
     \/ inv.detalles = Undefined \/ inv.detalles = Some(<<>>)
  THEN 1
  ELSE LET inf == inv.infoFactura[1] IN
       IF \/ inf.pagos = Undefined
          \/ CentsApart([i \in DOMAIN inf.pagos[1] |-> inf.pagos[1][i].total],
                        inf.importeTotal) > 1
       THEN 2
       ELSE IF CentsApart([i \in DOMAIN inv.detalles[1] |->
                              inv.detalles[1][i].precioTotalSinImpuesto],
                          inf.totalSinImpuestos) > 1
       THEN 3
       ELSE IF inf.placa \notin {Undefined, Some(<<>>)}
               /\ inv.infoTributaria[1].codDoc # <<"0", "1">>
       THEN 4
       ELSE IF inv.reembolsos # Undefined
               /\ inf.codDocReembolso \in {Undefined, Some(<<>>)}
       THEN 5
       ELSE IF inv.infoSustitutivaGuiaRemision # Undefined
               /\ inv.version \notin {"2.0.0", "2.1.0"}
       THEN 6
       ELSE IF inv.otrosRubrosTerceros # Undefined
               /\ inv.version \notin {"2.0.0", "2.1.0"}
       THEN 7
       ELSE 0

RuleMessage(rule) ==
  CASE rule = 1 -> ErrMissingBlocks
    [] rule = 2 -> ErrPagos
    [] rule = 3 -> ErrDetalles
    [] rule = 4 -> ErrPlaca
    [] rule = 5 -> ErrReembolsos
    [] rule = 6 -> ErrInfoSustitutiva
    [] rule = 7 -> ErrOtrosRubros

\* C6: a generateInvoiceXML call on an invoice violating none of the seven
\* rules passes validation, and on any other invoice it is rejected with the
\* message of the lowest-numbered rule the invoice violates, an invoice whose
\* infoFactura has no pagos list included.
C6_FirstViolatedRuleReported ==
  genResult # GenNotCalled =>
    IF FirstViolatedRule(invoice) = 0 THEN genResult.ok
    ELSE ~genResult.ok /\ genResult.err = RuleMessage(FirstViolatedRule(invoice))

\* C6 on the invoices that have a pagos list: there the statement holds.
C6_HoldsWithPagos ==
  (Present(invoice.infoFactura) => Present(invoice.infoFactura[1].pagos))
    => C6_FirstViolatedRuleReported

C6_SeveralRulesViolated ==
  /\ genResult.err = ErrDetalles
  /\ invoice.infoFactura[1].placa = Some(<<"ABC1234">>)
  /\ invoice.infoTributaria[1].codDoc = <<"0", "4">>
  /\ invoice.reembolsos # Undefined
  /\ invoice.otrosRubrosTerceros # Undefined
  /\ invoice.version = "1.0.0"

C6_NoPagosThrowsTypeError ==
  /\ genResult.err = TypeErrorReduce
  /\ Present(invoice.infoFactura)
  /\ ~Present(invoice.infoFactura[1].pagos)

\* C7: a generateInvoiceXML call on an invoice that satisfies every other rule
\* is rejected by the payments rule exactly when the sum of pagos[].total and
\* importeTotal are more than 0.01 apart: payments of 100.00 are rejected
\* against 100.02 and accepted against 100.01.
C7_PagosAcceptedWithinOneCent ==
  (genResult # GenNotCalled /\ invoice.detalles = BaseInvoice.detalles
     /\ invoice.infoFactura[1].totalSinImpuestos = BaseInfoFactura.totalSinImpuestos)
  => ( (genResult.err = ErrPagos)
         <=> CentsApart(PagoTotals(invoice.infoFactura[1].pagos[1]),
                        invoice.infoFactura[1].importeTotal) > 1 )

\* payments of 100.00 against an importeTotal of 100.01: rejected
C7_OneCentApartRejected ==
  /\ genResult.err = ErrPagos
  /\ SumCents(PagoTotals(invoice.infoFactura[1].pagos[1])) = 10000
  /\ invoice.infoFactura[1].importeTotal = Amt(10001)

\* payments of 100.00 against an importeTotal of 100.02: rejected
C7_TwoCentsApartRejected ==
  /\ genResult.err = ErrPagos
  /\ SumCents(PagoTotals(invoice.infoFactura[1].pagos[1])) = 10000
  /\ invoice.infoFactura[1].importeTotal = Amt(10002)

\* C7 in the direction that holds: whatever is more than 0.01 apart is rejected
C7_MoreThanOneCentRejected ==
  (genResult # GenNotCalled
     /\ CentsApart(PagoTotals(invoice.infoFactura[1].pagos[1]),
                   invoice.infoFactura[1].importeTotal) > 1)
  => genResult.err = ErrPagos

\* C8: whenever generateInvoiceXML has returned a document, the sum of
\* detalles[].precioTotalSinImpuesto is at most 0.01 from totalSinImpuestos and
\* the sum of pagos[].total is at most 0.01 from importeTotal.
C8_ReturnedDocumentsKeepBothSums ==
  genResult.ok =>
    /\ CentsApart(DetalleTotals(invoice.detalles[1]),
                  invoice.infoFactura[1].totalSinImpuestos) <= 1
    /\ CentsApart(PagoTotals(invoice.infoFactura[1].pagos[1]),
                  invoice.infoFactura[1].importeTotal) <= 1

C8_AcceptedOneCentApart ==
  /\ genResult.ok
  /\ Len(invoice.infoFactura[1].pagos[1]) = 2
  /\ CentsApart(PagoTotals(invoice.infoFactura[1].pagos[1]),
                invoice.infoFactura[1].importeTotal) = 1

\* the number of characters after the decimal point
Decimals(text) ==
  IF \E i \in 1..Len(text) : text[i] = "."
  THEN Len(text) - (CHOOSE i \in 1..Len(text) : text[i] = ".")
  ELSE 0

\* C10: in every document generateInvoiceXML returns, each line item's
\* cantidad and precioUnitario carry 6 decimals under versions 1.1.0 and 2.1.0
\* and 2 decimals under 1.0.0 and 2.0.0, its descuento and
\* precioTotalSinImpuesto carry 2 decimals, and a cantidad of 1.5 reads
\* "1.500000" under 2.1.0 and "1.50" under 1.0.0.
C10_LineItemDecimals ==
  genResult.ok =>
    LET items == NodesNamed(genResult.xml[1], "detalle")
        places == IF invoice.version \in {"1.1.0", "2.1.0"} THEN 6 ELSE 2
    IN  /\ invoice.version \in {"1.0.0", "1.1.0", "2.0.0", "2.1.0"}
        /\ Len(items) = Len(invoice.detalles[1])
        /\ \A i \in 1..Len(items) :
             /\ Decimals(TextOf(items[i], "cantidad")) = places
             /\ Decimals(TextOf(items[i], "precioUnitario")) = places
             /\ Decimals(TextOf(items[i], "descuento")) = 2
             /\ Decimals(TextOf(items[i], "precioTotalSinImpuesto")) = 2
             /\ (invoice.detalles[1][i].cantidad = Lit(15, 1) /\ invoice.version = "2.1.0")
                  => TextOf(items[i], "cantidad") = <<"1", ".", "5", "0", "0", "0", "0", "0">>
             /\ (invoice.detalles[1][i].cantidad = Lit(15, 1) /\ invoice.version = "1.0.0")
                  => TextOf(items[i], "cantidad") = <<"1", ".", "5", "0">>

C10_TwoItemsSixDecimals ==
  /\ genResult.ok
  /\ invoice.version = "2.1.0"
  /\ Len(invoice.detalles[1]) = 2
  /\ invoice.detalles[1][2].cantidad = Lit(15, 1)
  /\ TextOf(NodesNamed(genResult.xml[1], "detalle")[2], "cantidad")
       = <<"1", ".", "5", "0", "0", "0", "0", "0">>
  /\ TextOf(NodesNamed(genResult.xml[1], "detalle")[1], "precioUnitario")
       = <<"0", ".", "9", "9", "9", "9", "9", "9">>

\* the names of the children of the root, in document order
TopLevelNames(xml) == [i \in DOMAIN xml.kids |-> xml.kids[i].name]

\* the blocks the claim expects under the root for an invoice, in its order
ExpectedTopLevel(inv) ==
  <<"infoTributaria", "infoFactura", "detalles">>
    \o (IF inv.retenciones # Undefined THEN <<"retenciones">> ELSE <<>>)
    \o (IF inv.reembolsos # Undefined THEN <<"reembolsos">> ELSE <<>>)
    \o (IF inv.infoSustitutivaGuiaRemision # Undefined
        THEN <<"infoSustitutivaGuiaRemision">> ELSE <<>>)
    \o (IF inv.otrosRubrosTerceros # Undefined THEN <<"otrosRubrosTerceros">> ELSE <<>>)
    \o (IF inv.infoAdicional # Undefined /\ inv.infoAdicional[1].campos # <<>>
        THEN <<"infoAdicional">> ELSE <<>>)

\* C11: in every document generateInvoiceXML returns, the children of the
\* root are infoTributaria, infoFactura, detalles and then, for each of
\* retenciones, reembolsos, infoSustitutivaGuiaRemision, otrosRubrosTerceros
\* and infoAdicional that the invoice has, that block, in this order.
C11_TopLevelBlocksInOrder ==
  genResult.ok => TopLevelNames(genResult.xml[1]) = ExpectedTopLevel(invoice)

\* C11 on the invoices with none of the four blocks the builder never
\* writes: there the statement holds.
C11_HoldsWithoutUnwrittenBlocks ==
  ( /\ invoice.retenciones = Undefined
    /\ invoice.reembolsos = Undefined
    /\ invoice.infoSustitutivaGuiaRemision = Undefined
    /\ invoice.otrosRubrosTerceros = Undefined )
  => C11_TopLevelBlocksInOrder

\* an invoice with all five optional blocks: only infoAdicional is written
C11_FourBlocksDropped ==
  /\ genResult.ok
  /\ invoice.retenciones # Undefined
  /\ invoice.reembolsos # Undefined
  /\ invoice.infoSustitutivaGuiaRemision # Undefined
  /\ invoice.otrosRubrosTerceros # Undefined
  /\ TopLevelNames(genResult.xml[1])
       = <<"infoTributaria", "infoFactura", "detalles", "infoAdicional">>

\* an optional string or list that is absent or empty
Empty(o) == o = Undefined \/ o = Some(<<>>)

\* no element called name under node
NoNode(node, name) == NodesNamed(node, name) = <<>>

\* every element called name under node has a text or children
NoPlaceholder(node, name) ==
  LET nodes == NodesNamed(node, name)
  IN  \A i \in DOMAIN nodes : nodes[i].text # <<>> \/ nodes[i].kids # <<>>

\* C12: in a returned document an optional field that is absent or empty on
\* the invoice (an undefined or '' nombreComercial, agenteRetencion,
\* contribuyenteRimpe, contribuyenteEspecial, direccionComprador; per pago an
\* undefined plazo and an undefined or '' unidadTiempo; per line item an
\* undefined or '' codigoAuxiliar and an undefined or [] detallesAdicionales;
\* an undefined infoAdicional or one with no campos) has no node of its name
\* under its parent, and no node of these ten names is an empty placeholder.
C12_AbsentOptionalFieldsHaveNoNode ==
  genResult.ok =>
    LET xml == genResult.xml[1]
        it == invoice.infoTributaria[1]
        inf == invoice.infoFactura[1]
        pagos == inf.pagos[1]
        detalles == invoice.detalles[1]
        pagoNodes == NodesNamed(xml, "pago")
        detalleNodes == NodesNamed(xml, "detalle")
    IN  /\ \A f \in {"nombreComercial", "agenteRetencion", "contribuyenteRimpe"} :
              Empty(it[f]) => NoNode(xml, f)
        /\ \A f \in {"contribuyenteEspecial", "direccionComprador"} :
              Empty(inf[f]) => NoNode(xml, f)
        /\ Len(pagoNodes) = Len(pagos)
        /\ \A i \in DOMAIN pagos :
              /\ pagos[i].plazo = Undefined => NoNode(pagoNodes[i], "plazo")
              /\ Empty(pagos[i].unidadTiempo) => NoNode(pagoNodes[i], "unidadTiempo")
        /\ Len(detalleNodes) = Len(detalles)
        /\ \A i \in DOMAIN detalles :
              /\ Empty(detalles[i].codigoAuxiliar)
                    => NoNode(detalleNodes[i], "codigoAuxiliar")
              /\ Empty(detalles[i].detallesAdicionales)
                    => NoNode(detalleNodes[i], "detallesAdicionales")
        /\ (invoice.infoAdicional = Undefined
              \/ invoice.infoAdicional[1].campos = <<>>) => NoNode(xml, "infoAdicional")
        /\ \A f \in { "nombreComercial", "agenteRetencion", "contribuyenteRimpe",
                       "contribuyenteEspecial", "direccionComprador", "plazo",
                       "unidadTiempo", "codigoAuxiliar", "detallesAdicionales",
                       "infoAdicional" } : NoPlaceholder(xml, f)

\* a returned document of an invoice with an empty nombreComercial, an
\* undefined agenteRetencion and a filled contribuyenteRimpe, and of two pagos
\* of which only the second has a unidadTiempo
C12_EmptyAbsentAndFilled ==
  /\ genResult.ok
  /\ \/ /\ invoice.infoTributaria[1].nombreComercial = Some(<<>>)
        /\ invoice.infoTributaria[1].agenteRetencion = Undefined
        /\ Truthy(invoice.infoTributaria[1].contribuyenteRimpe)
        /\ NoNode(genResult.xml[1], "nombreComercial")
        /\ Len(NodesNamed(genResult.xml[1], "contribuyenteRimpe")) = 1
     \/ /\ Len(invoice.infoFactura[1].pagos[1]) = 2
        /\ invoice.infoFactura[1].pagos[1][1].unidadTiempo = Some(<<>>)
        /\ Truthy(invoice.infoFactura[1].pagos[1][2].unidadTiempo)
        /\ Len(NodesNamed(genResult.xml[1], "unidadTiempo")) = 1

C13_TwoRunsThrew ==
  /\ genResult # GenNotCalled
  /\ ~genResult.ok
  /\ genAgain = genResult

\* the call threw while validating: nothing was built and no key computed
RejectedInValidation(result) ==
  /\ result # GenNotCalled
  /\ ~result.ok
  /\ result.xml = <<>>
  /\ result.accessKey = <<>>
  /\ result.err \notin {ErrNumericCode, ErrDate, ErrLength}

\* C14: a call on an invoice whose infoFactura has a non-empty placa and whose
\* infoTributaria has a codDoc other than '01' fails in validation and
\* returns no document, with the placa message when no earlier rule is
\* violated; a document is returned for an invoice with a non-empty placa
\* only when its codDoc is '01'; and the placa message is raised for no
\* invoice whose placa is undefined or '' and for no invoice of codDoc '01'.
C14_PlacaOnlyInFuelSale ==
  (genResult # GenNotCalled /\ Present(invoice.infoTributaria)
     /\ Present(invoice.infoFactura)) =>
    LET placa == invoice.infoFactura[1].placa
        codDoc == invoice.infoTributaria[1].codDoc
        nonEmpty == placa # Undefined /\ placa # Some(<<>>)
    IN  /\ (nonEmpty /\ codDoc # <<"0", "1">>) => RejectedInValidation(genResult)
        /\ (nonEmpty /\ codDoc # <<"0", "1">> /\ FirstViolatedRule(invoice) = 4)
              => genResult.err = ErrPlaca
        /\ (genResult.ok /\ nonEmpty) => codDoc = <<"0", "1">>
        /\ genResult.err = ErrPlaca => (nonEmpty /\ codDoc # <<"0", "1">>)

\* a placa on an invoice of codDoc '04' was rejected with the placa message
C14_PlacaRejected ==
  /\ genResult.err = ErrPlaca
  /\ invoice.infoFactura[1].placa = Some(<<"ABC1234">>)
  /\ invoice.infoTributaria[1].codDoc = <<"0", "4">>
  /\ genResult.xml = <<>>

\* a placa on an invoice of codDoc '01' was accepted
C14_PlacaAccepted ==
  /\ genResult.ok
  /\ invoice.infoFactura[1].placa = Some(<<"ABC1234">>)
  /\ invoice.infoTributaria[1].codDoc = <<"0", "1">>

\* an invoice of codDoc '04' without placa was accepted
C14_NoPlacaAccepted ==
  /\ genResult.ok
  /\ invoice.infoFactura[1].placa \in {Undefined, Some(<<>>)}
  /\ invoice.infoTributaria[1].codDoc = <<"0", "4">>

\* C15: a call on an invoice that has a reembolsos block and whose infoFactura
\* has no codDocReembolso (undefined or '') fails in validation and returns no
\* document, with the reembolsos message when no earlier rule is violated; a
\* document is returned for an invoice with a reembolsos block only when
\* codDocReembolso is declared; and the reembolsos message is raised for no
\* invoice without a reembolsos block, whatever its codDocReembolso.
C15_ReembolsosNeedCode ==
  (genResult # GenNotCalled /\ Present(invoice.infoFactura)) =>
    LET code == invoice.infoFactura[1].codDocReembolso
        declared == code # Undefined /\ code # Some(<<>>)
        block == invoice.reembolsos # Undefined
    IN  /\ (block /\ ~declared) => RejectedInValidation(genResult)
        /\ (block /\ ~declared /\ FirstViolatedRule(invoice) = 5)
              => genResult.err = ErrReembolsos
        /\ (genResult.ok /\ block) => declared
        /\ genResult.err = ErrReembolsos => (block /\ ~declared)

\* a reembolsos block with an empty codDocReembolso was rejected with the
\* reembolsos message
C15_ReembolsosRejected ==
  /\ genResult.err = ErrReembolsos
  /\ invoice.reembolsos # Undefined
  /\ invoice.infoFactura[1].codDocReembolso = Some(<<>>)
  /\ genResult.xml = <<>>

\* a reembolsos block with codDocReembolso '41' was accepted
C15_ReembolsosAccepted ==
  /\ genResult.ok
  /\ invoice.reembolsos # Undefined
  /\ invoice.infoFactura[1].codDocReembolso = Some(<<"41">>)

\* an invoice with neither a reembolsos block nor a codDocReembolso was
\* accepted
C15_NoReembolsosAccepted ==
  /\ genResult.ok
  /\ invoice.reembolsos = Undefined
  /\ invoice.infoFactura[1].codDocReembolso = Undefined

\* C16: a call on an invoice that has an infoSustitutivaGuiaRemision block or
\* an otrosRubrosTerceros block and whose version is not '2.0.0' or '2.1.0'
\* ('1.0.0', '1.1.0' or a string outside InvoiceVersion) fails in validation
\* and returns no document, with the block's message when no earlier rule is
\* violated; a document is returned for an invoice with either block only
\* when its version is '2.0.0' or '2.1.0'; and each message is raised only
\* for an invoice with that block and a version outside these two.
C16_BlocksOnlyInVersions2x ==
  genResult # GenNotCalled =>
    LET allowed == invoice.version \in {"2.0.0", "2.1.0"}
        sustitutiva == invoice.infoSustitutivaGuiaRemision # Undefined
        rubros == invoice.otrosRubrosTerceros # Undefined
    IN  /\ ((sustitutiva \/ rubros) /\ ~allowed) => RejectedInValidation(genResult)
        /\ (sustitutiva /\ ~allowed /\ FirstViolatedRule(invoice) = 6)
              => genResult.err = ErrInfoSustitutiva
        /\ (rubros /\ ~allowed /\ FirstViolatedRule(invoice) = 7)
              => genResult.err = ErrOtrosRubros
        /\ (genResult.ok /\ (sustitutiva \/ rubros)) => allowed
        /\ genResult.err = ErrInfoSustitutiva => (sustitutiva /\ ~allowed)
        /\ genResult.err = ErrOtrosRubros => (rubros /\ ~allowed)

\* an otrosRubrosTerceros block alone was rejected in version 1.1.0
C16_RubrosRejectedIn11 ==
  /\ genResult.err = ErrOtrosRubros
  /\ invoice.version = "1.1.0"
  /\ invoice.infoSustitutivaGuiaRemision = Undefined
  /\ genResult.xml = <<>>

\* an infoSustitutivaGuiaRemision block was rejected in a version outside
\* InvoiceVersion
C16_SustitutivaRejectedOutside ==
  /\ genResult.err = ErrInfoSustitutiva
  /\ invoice.version = "3.0.0"

\* both blocks were accepted in version 2.0.0
C16_BothAcceptedIn20 ==
  /\ genResult.ok
  /\ invoice.version = "2.0.0"
  /\ invoice.infoSustitutivaGuiaRemision # Undefined
  /\ invoice.otrosRubrosTerceros # Undefined

(***************************************************************************)
(* Claims about signXML within createAndSignInvoice (specification Spec)   *)
(***************************************************************************)
\* the value of the attribute called name of node
AttrOf(node, name) ==
  LET i == CHOOSE j \in DOMAIN node.attrs : node.attrs[j][1] = name
  IN  node.attrs[i][2]

\* after is before with one ds:Signature element added as the last child of
\* the root, and that element has one ds:Reference, to the id of the root
SignedFrom(before, after) ==
  LET n == Len(before.kids)
      signature == after.kids[n + 1]
      references == NodesNamed(signature, "ds:Reference")
  IN  /\ after.name = before.name
      /\ after.attrs = before.attrs
      /\ after.text = before.text
      /\ Len(after.kids) = n + 1
      /\ SubSeq(after.kids, 1, n) = before.kids
      /\ signature.name = "ds:Signature"
      /\ NodesNamed(before, "ds:Signature") = <<>>
      /\ Len(NodesNamed(after, "ds:Signature")) = 1
      /\ Len(references) = 1
      /\ AttrOf(references[1], "URI") = <<"#">> \o AttrOf(after, "id")

\* the root generateInvoiceXML creates: factura, with the id comprobante and
\* the version of the invoice
RootOfInvoice(xml, inv) ==
  /\ xml.name = "factura"
  /\ xml.attrs = << <<"id", <<"comprobante">> >>, <<"version", <<inv.version>> >> >>

FullySigned(xml) ==
  /\ xml.kids # <<>>
  /\ xml.kids[Len(xml.kids)].name = "ds:Signature"
  /\ Len(NodesNamed(xml, "ds:SignedInfo")) = 1
  /\ Len(NodesNamed(xml, "ds:SignatureValue")) = 1
  /\ Len(NodesNamed(xml, "ds:X509Certificate")) = 1

\* C18: once createAndSignInvoice has been called on an invoice for which
\* generateInvoiceXML fails (numeric code, a validation rule or the access
\* key), the call is rejected with that error without any operation on the
\* key container (no existsSync, no readFileSync, so no signXML), without
\* console output and without a document; a call rejected by signXML returns
\* no document either; and a document is returned only by a call that went
\* through every step of signXML, and it carries the whole signature.
C18_FailFastNoPartialDocument ==
  /\ (call.pc # "idle" /\ Present(invoice.infoTributaria)
        /\ ~generateInvoiceXML(invoice, codigoNumerico).ok)
       => /\ call.pc = "done"
          /\ call.err = generateInvoiceXML(invoice, codigoNumerico).err
  /\ call.err # ""
       => /\ call.pc = "done" /\ ~call.ok
          /\ call.io = <<>>
          /\ console = <<>>
          /\ call.signedXml = <<>> /\ call.accessKey = <<>>
          /\ call.signErr = <<>>
  /\ call.signErr # <<>>
       => /\ call.pc = "done" /\ ~call.ok
          /\ call.signedXml = <<>> /\ call.accessKey = <<>>
  /\ call.pc = "done" => (call.ok \/ call.err # "" \/ call.signErr # <<>>)
  /\ call.signedXml # <<>>
       => /\ call.pc = "done" /\ call.ok
          /\ call.io = <<"existsSync", "readFileSync", "importKey", "Sign">>
          /\ FullySigned(call.signedXml[1])

\* calls were rejected by a validation rule with a readable container in
\* place, and nothing was done with the container
C18_ValidationStoppedTheCall ==
  /\ call.err = ErrPagos
  /\ container = Some(GoodContainer)
  /\ call.io = <<>>

\* a call was rejected by the numeric-code check
C18_NumericCodeStoppedTheCall ==
  call.err = ErrNumericCode /\ container = Some(GoodContainer) /\ call.io = <<>>

\* a call was rejected by access-key generation
C18_AccessKeyStoppedTheCall ==
  call.err \in {ErrDate, ErrLength} /\ container = Some(GoodContainer)
    /\ call.io = <<>>

\* a call failed in the Sign step, after the key had been imported
C18_SignStepFailed ==
  /\ call.signErr # <<>>
  /\ call.io = <<"existsSync", "readFileSync", "importKey", "Sign">>
  /\ call.signedXml = <<>>

\* a console line that shows a private key object
ShowsPrivateKey(entry) ==
  /\ entry.label \in {"DEBUG privateKeyObj:", "DEBUG Fallback keyBag[0].key:"}
  /\ Present(entry.value)

\* C19: no line written to the console shows the private key object, and
\* once signXML has ended, by returning or by throwing, the call holds no
\* reference to the key.
C19_PrivateKeyNeverLoggedNorKept ==
  /\ \A i \in DOMAIN console : ~ShowsPrivateKey(console[i])
  /\ call.pc \in {"idle", "done"} => call.privateKey = <<>>

\* the part of C19 that holds: no reference to the key outlives signXML
C19_NoKeyKeptAfterCall ==
  call.pc \in {"idle", "done"} => call.privateKey = <<>>

\* a signed document was returned and the console shows the key that signed
C19_KeyLoggedOnSuccess ==
  /\ call.ok
  /\ \E i \in DOMAIN console :
       console[i].label = "DEBUG privateKeyObj:" /\ console[i].value = Some(Key1)

\* the key of the fallback bag was written to the console
C19_FallbackKeyLogged ==
  \E i \in DOMAIN console :
    /\ console[i].label = "DEBUG Fallback keyBag[0].key:"
    /\ console[i].value = Some(Key2)

\* signXML has run to its end on a well-formed key container with a password
\* that is not the container's
EndedOnWrongPassword ==
  /\ call.pc = "done"
  /\ call.io # <<>>
  /\ Present(container)
  /\ ~Present(container[1].derError)
  /\ config.p12Password # container[1].password

\* C20: signXML given a well-formed key container and a password that is not
\* the container's fails with the incorrect-password error, and not with the
\* generic 'Fallo en el proceso de firma: ...' failure.
C20_WrongPasswordReported ==
  EndedOnWrongPassword => call.signErr = ErrWrongPassword

\* the part of C20 that holds: the incorrect-password error when the message
\* of the error thrown for the wrong password contains 'mac verify' in some
\* letter case, and the generic failure for a container that does not parse
C20_HoldsWhenMessageSaysMacVerify ==
  /\ (EndedOnWrongPassword
        /\ Includes(ToLowerCase(container[1].macError), MacVerify))
       => call.signErr = ErrWrongPassword
  /\ (call.pc = "done" /\ call.io # <<>> /\ Present(container)
        /\ Present(container[1].derError))
       => call.signErr = SignFailurePrefix \o container[1].derError[1]
  /\ call.signErr = ErrWrongPassword => EndedOnWrongPassword

\* a wrong password ended in the generic failure, wrapped around the message
\* node-forge gives for a MAC that does not verify
C20_WrongPasswordGenericFailure ==
  /\ EndedOnWrongPassword
  /\ call.signErr = SignFailurePrefix \o ForgeMacMessage
  /\ \E i \in DOMAIN console : console[i].stream = "error"

\* a wrong password ended in the incorrect-password error
C20_WrongPasswordRecognised ==
  EndedOnWrongPassword /\ call.signErr = ErrWrongPassword

\* signXML has read a well-formed container with the right password and a
\* certificate in it
ContainerOpened ==
  /\ call.pc # "idle"
  /\ call.io # <<>>
  /\ Present(container)
  /\ ~Present(container[1].derError)
  /\ config.p12Password = container[1].password
  /\ Len(container[1].certBags) > 0
  /\ Present(container[1].certBags[1])

\* the PKCS#8 shrouded slot of the container yields a key
ShroudedSlotHasKey ==
  /\ Len(container[1].shroudedKeyBags) > 0
  /\ Present(container[1].shroudedKeyBags[1])

\* the legacy slot (keyBag) of the container yields a key
LegacySlotHasKey ==
  Len(container[1].keyBags) > 0 /\ Present(container[1].keyBags[1])

\* signXML threw one of its two errors about a private key that is not found
KeyNotFoundRaised ==
  call.signErr \in { SignFailurePrefix \o ErrNoShroudedKeyBag,
                     SignFailurePrefix \o ErrNoPrivateKey }

\* C21: on a container that signXML has opened, a private key in the legacy
\* slot is used whenever the shrouded slot yields none, so extraction goes on
\* to the key import, and an error about a private key that is not found
\* is raised only when neither slot yields a key.
C21_LegacySlotTriedBeforeFailing ==
  ContainerOpened =>
    /\ (~ShroudedSlotHasKey /\ LegacySlotHasKey)
         => (call.io # <<"existsSync", "readFileSync">> /\ ~KeyNotFoundRaised)
    /\ KeyNotFoundRaised => (~ShroudedSlotHasKey /\ ~LegacySlotHasKey)

\* the part of C21 that holds: with a shrouded bag whose key is missing, the
\* key of the legacy slot is used, and the error of line 157 is raised only
\* when neither slot yields a key
C21_HoldsWithAnEmptyShroudedBag ==
  (ContainerOpened /\ Len(container[1].shroudedKeyBags) > 0) =>
    C21_LegacySlotTriedBeforeFailing

\* a container whose only private key is in the legacy slot, with no
\* shrouded bag at all, was refused
C21_LegacyOnlyContainerRefused ==
  /\ ContainerOpened
  /\ container[1].shroudedKeyBags = <<>>
  /\ LegacySlotHasKey
  /\ call.signErr = SignFailurePrefix \o ErrNoShroudedKeyBag
  /\ call.signedXml = <<>>

\* a document was signed with the key of the legacy slot
C21_SignedWithLegacyKey ==
  /\ ContainerOpened
  /\ ~ShroudedSlotHasKey
  /\ call.ok
  /\ TextOf(call.signedXml[1], "ds:SignatureValue")
       = <<"RSASSA-PKCS1-v1_5", Key2.signs>>

(***************************************************************************)
(* Claims about concurrent signXML invocations (SpecConcurrent)            *)
(***************************************************************************)
\* what invocation i, run alone with its own arguments, can end in: the one
\* document its key signs, or one of the errors of its own steps
EndsAsAlone(signer) ==
  IF ~Present(signer.p12)
  THEN ~signer.ok /\ signer.err = ErrCertificateNotFound(signer.certificatePath)
  ELSE LET extracted == SignXmlExtract(signer.p12[1], signer.certificatePassword) IN
       IF Present(extracted.err)
       THEN ~signer.ok /\ signer.err = SignXmlCatch(extracted.err[1]).err
       ELSE IF signer.ok
       THEN signer.signedXml =
              << AppendChild(signer.xmlToSign,
                             SignatureNode(extracted.key[1], extracted.cert[1].base64)) >>
       ELSE signer.err \in { SignXmlCatch(ImportKeyMessage).err,
                             SignXmlCatch(ErrNoSignatureNode).err,
                             SignXmlCatch(SignMessage).err }

\* C22: while a signXML invocation is between its setEngine call and its end
\* (awaiting importKey or Sign), the engine it gave to Application.setEngine
\* is still the one in place, no other invocation having overwritten it; and
\* every invocation that has ended has the result it has when run alone on
\* its own arguments.
C22_NoSharedStateBetweenInvocations ==
  \A i \in DOMAIN signers :
    /\ signers[i].pc \in {"importKey", "sign"} => engine = Some(i)
    /\ signers[i].pc = "done" => EndsAsAlone(signers[i])

\* the part of C22 that holds: every invocation that has ended has the
\* result it has when run alone on its own arguments
C22_ResultsAsWhenAlone ==
  \A i \in DOMAIN signers : signers[i].pc = "done" => EndsAsAlone(signers[i])

\* the first invocation is about to sign with the engine of the second in
\* place
C22_EngineOverwritten ==
  /\ signers[1].pc = "sign"
  /\ signers[2].pc \in {"importKey", "sign", "done"}
  /\ engine = Some(2)

\* both invocations returned a document, each signed with its own key
C22_BothSigned ==
  /\ signers[1].ok /\ signers[2].ok
  /\ TextOf(signers[1].signedXml[1], "ds:SignatureValue")
       = <<"RSASSA-PKCS1-v1_5", Key1.signs>>
  /\ TextOf(signers[2].signedXml[1], "ds:SignatureValue")
       = <<"RSASSA-PKCS1-v1_5", Key2.signs>>

(***************************************************************************)
(* Claims about the errors of getCheckDigit and getAccessKey (SpecKey)     *)
(***************************************************************************)
\* C23: getCheckDigit returns a value only for an input of exactly 48
\* characters, all digits (for any other input it throws), and getAccessKey
\* returns a key only for parts whose components are all digits.
C23_CheckDigitRejectsInvalidInput ==
  /\ digitResult.called => Is48Digits(digitResult.arg)
  /\ keyResult.ok => PartsAllDigits(parts)

\* getCheckDigit returned NaN for 48 characters with a letter among them
C23_LetterGivesNaN ==
  /\ digitResult.called
  /\ Len(digitResult.arg) = KeyLen /\ ~AllDigits(digitResult.arg)
  /\ digitResult.res = NaN

\* getCheckDigit returned NaN for 47 digits
C23_ShortInputGivesNaN ==
  /\ digitResult.called
  /\ Len(digitResult.arg) = KeyLen - 1 /\ AllDigits(digitResult.arg)
  /\ digitResult.res = NaN

\* getCheckDigit returned the digit of the first 48 characters for 49 digits
C23_LongInputGivesDigit ==
  /\ digitResult.called
  /\ Len(digitResult.arg) = KeyLen + 1 /\ AllDigits(digitResult.arg)
  /\ digitResult.res = getCheckDigit(First48(digitResult.arg))
  /\ ~digitResult.res.nan

\* getAccessKey returned a key with a letter in its tax ID
C23_KeyWithLetterReturned ==
  /\ keyResult.ok
  /\ ~AllDigits(parts.ruc)
  /\ SubSeq(keyResult.val, 11, 23) = parts.ruc

\* the number of components the date splits into on '/'
DatePieces(p) == Len(Split(p.date, "/"))

\* C24: a getAccessKey call on parts whose date has three components and
\* whose reformatted date and padded components do not concatenate to
\* exactly 48 characters throws the key-length error and returns nothing (no
\* key and no check digit), and the key-length error is thrown for no other
\* parts.
C24_WrongLengthThrows ==
  Called(keyResult) =>
    /\ (DatePieces(parts) = 3 /\ Len(ExpectedFirst48(parts)) # 48)
         => keyResult = Throw(ErrLength)
    /\ keyResult.err = ErrLength
         => /\ DatePieces(parts) = 3 /\ Len(ExpectedFirst48(parts)) # 48
            /\ ~keyResult.ok /\ keyResult.val = <<>>

\* a document type of three characters, which padding to two cannot
\* shrink, made the concatenation 49 characters long and the call throw
C24_OversizedComponentRejected ==
  /\ keyResult = Throw(ErrLength)
  /\ Len(parts.voucherType) = 3
  /\ Len(ExpectedFirst48(parts)) = 49

\* a tax ID of twelve characters made the concatenation too short
C24_ShortConcatenationRejected ==
  /\ keyResult = Throw(ErrLength)
  /\ Len(ExpectedFirst48(parts)) = 47

\* C25: a getAccessKey call throws the date-format error exactly when the
\* date does not split on '/' into exactly three components, whatever the
\* other components are, even when they make the key too long or too short.
C25_DateErrorIffNotThreePieces ==
  Called(keyResult) =>
    /\ (keyResult.err = ErrDate <=> DatePieces(parts) # 3)
    /\ DatePieces(parts) # 3 => keyResult = Throw(ErrDate)

\* a date of two components was reported as a date error while the tax ID
\* had a wrong length
C25_DateErrorBeforeLengthError ==
  /\ keyResult = Throw(ErrDate)
  /\ DatePieces(parts) = 2
  /\ Len(parts.ruc) # 13

\* a date of four components
C25_FourPiecesRejected ==
  keyResult = Throw(ErrDate) /\ DatePieces(parts) = 4

(***************************************************************************)
(* Claims about the services of the SRI (specification SpecRemote)         *)
(***************************************************************************)
\* a checkAuthorization call that has ended
AuthorizationEnded == remote.pc = "done" /\ remote.fn = "checkAuthorization"

\* the service answered, and the body it answered with
Answered == AuthorizationEnded /\ remote.received[1].ok

AnswerBody == remote.received[1].data

\* the answer holds no autorizacion element and says that it found 0 documents
AnswerHasNoDocument ==
  /\ Answered
  /\ getElementsByTagName(AnswerBody, "autorizacion") = <<>>
  /\ \E n \in DOMAIN getElementsByTagName(AnswerBody, "numeroComprobantes") :
       n = 1 /\ getElementsByTagName(AnswerBody, "numeroComprobantes")[n].text = <<"0">>

\* the answer holds an autorizacion element whose estado is NO AUTORIZADO
AnswerRefuses ==
  /\ Answered
  /\ getElementsByTagName(AnswerBody, "autorizacion") # <<>>
  /\ LET estados == getElementsByTagName(
                      getElementsByTagName(AnswerBody, "autorizacion")[1], "estado")
     IN  estados # <<>> /\ estados[1].text = <<"NO AUTORIZADO">>

\* the message records of the answer: the children of its mensajes element
AnswerRecords ==
  LET lists == getElementsByTagName(AnswerBody, "mensajes")
  IN  IF lists = <<>> THEN <<>> ELSE lists[1].kids

\* the text of the child of that name of a record, '' when it has none
FieldOf(record, name) ==
  LET at == { i \in DOMAIN record.kids : record.kids[i].name = name }
  IN  IF at = {} THEN <<>> ELSE record.kids[CHOOSE i \in at : TRUE].text

NotProcessedPrefix == <<"El comprobante con clave ">>

NotAuthorizedPrefix == <<"El SRI no autorizo el comprobante con clave ">>

StartsWith(s, prefix) ==
  Len(s) >= Len(prefix) /\ SubSeq(s, 1, Len(prefix)) = prefix

\* C26: a checkAuthorization call whose answer has no autorizacion element and
\* numeroComprobantes 0 throws the not-yet-processed error; one whose answer
\* has an autorizacion element with estado NO AUTORIZADO throws the
\* not-authorized error, in which the identifier, the text and the additional
\* information of every message record of the answer are written; neither
\* error is thrown in any other case, and neither case returns a value.
C26_NotProcessedApartFromNotAuthorized ==
  AuthorizationEnded =>
    /\ AnswerHasNoDocument =>
         /\ ~remote.ok /\ remote.value = Undefined
         /\ remote.err = NotProcessedPrefix \o remote.argument
              \o <<" aun no ha sido procesado por el SRI. Intente de nuevo mas tarde.">>
    /\ AnswerRefuses =>
         /\ ~remote.ok /\ remote.value = Undefined
         /\ StartsWith(remote.err, NotAuthorizedPrefix \o remote.argument)
         /\ \A i \in DOMAIN AnswerRecords :
              Includes(remote.err,
                       <<"  - [">> \o FieldOf(AnswerRecords[i], "identificador")
                         \o <<"] ">> \o FieldOf(AnswerRecords[i], "mensaje")
                         \o <<" ">> \o FieldOf(AnswerRecords[i], "informacionAdicional"))
    /\ StartsWith(remote.err, NotProcessedPrefix) => AnswerHasNoDocument
    /\ StartsWith(remote.err, NotAuthorizedPrefix) => AnswerRefuses

\* a refusal with two message records has ended in the not-authorized error
C26_RefusedWithTwoRecords ==
  AnswerRefuses /\ Len(AnswerRecords) = 2 /\ StartsWith(remote.err, NotAuthorizedPrefix)

\* an answer of 0 documents has ended in the not-yet-processed error
C26_NotYetProcessed ==
  AnswerHasNoDocument /\ StartsWith(remote.err, NotProcessedPrefix)

\* an answer with neither an autorizacion element nor 0 documents has ended
\* in a third error
C26_NeitherOfTheTwo ==
  /\ Answered /\ ~AnswerHasNoDocument /\ ~AnswerRefuses /\ ~remote.ok
  /\ ~StartsWith(remote.err, NotProcessedPrefix)
  /\ ~StartsWith(remote.err, NotAuthorizedPrefix)

\* the estado element of the first autorizacion element of the answer says so
AnswerEstadoIs(text) ==
  /\ Answered
  /\ getElementsByTagName(AnswerBody, "autorizacion") # <<>>
  /\ LET estados == getElementsByTagName(
                      getElementsByTagName(AnswerBody, "autorizacion")[1], "estado")
     IN  estados # <<>> /\ estados[1].text = text

\* the object returned says AUTORIZADO and holds the document, the number and
\* the timestamp
ReturnedAuthorized ==
  /\ remote.ok
  /\ remote.value[1].estado = Some(<<"AUTORIZADO">>)
  /\ Truthy(remote.value[1].comprobante)
  /\ Truthy(remote.value[1].numeroAutorizacion)
  /\ Truthy(remote.value[1].fechaAutorizacion)

\* C27: a checkAuthorization call that returns, returns estado AUTORIZADO with
\* the authorized document, the authorization number and the authorization
\* timestamp; every other outcome of the request (NO AUTORIZADO, an estado
\* that is missing or unknown, no matching document, a communication fault)
\* ends in an error.
C27_ReturnsOnlyWhenAuthorized ==
  AuthorizationEnded =>
    /\ remote.ok => ReturnedAuthorized
    /\ ~AnswerEstadoIs(<<"AUTORIZADO">>) => ~remote.ok

\* the same, for the answers that say AUTORIZADO with every field filled or
\* NO AUTORIZADO, that hold no autorizacion element, and for failed requests
C27_HoldsForCompleteAnswers ==
  ( /\ AuthorizationEnded
    /\ Answered => \/ getElementsByTagName(AnswerBody, "autorizacion") = <<>>
                   \/ AnswerEstadoIs(<<"NO AUTORIZADO">>)
                   \/ /\ AnswerEstadoIs(<<"AUTORIZADO">>)
                      /\ getElementsByTagName(AnswerBody, "comprobante") # <<>>
                      /\ Truthy(FirstText(AnswerBody, "numeroAutorizacion")) )
    => /\ remote.ok => ReturnedAuthorized
       /\ ~AnswerEstadoIs(<<"AUTORIZADO">>) => ~remote.ok

\* the call returned an estado that is neither of the two
C27_ReturnedInProcess ==
  /\ AuthorizationEnded /\ remote.ok
  /\ remote.value[1].estado = Some(<<"EN PROCESO">>)
  /\ remote.value[1].comprobante = Undefined

\* the call returned with no estado at all
C27_ReturnedWithoutEstado ==
  AuthorizationEnded /\ remote.ok /\ remote.value[1].estado = Undefined

\* the call returned AUTORIZADO with neither number nor document
C27_AuthorizedWithoutNumber ==
  /\ AuthorizationEnded /\ remote.ok
  /\ remote.value[1].estado = Some(<<"AUTORIZADO">>)
  /\ remote.value[1].numeroAutorizacion = Undefined
  /\ remote.value[1].comprobante = Undefined

\* the call returned AUTORIZADO with the document, the number and the timestamp
C27_AuthorizedReturned == AuthorizationEnded /\ ReturnedAuthorized

(***************************************************************************)
(* Claims about the ambiente of the OpenFactura configuration              *)
(* (specifications Spec and SpecRemote)                                    *)
(***************************************************************************)
\* createAndSignInvoice has returned
Returned == call.pc = "done" /\ call.ok

\* the fields of the invoice before the environment digit of the access key
\* have their 8, 2 and 13 characters
EnvironmentAt24(inv) ==
  /\ Len(WithoutSlashes(inv.infoFactura[1].fechaEmision)) = 8
  /\ Len(inv.infoTributaria[1].codDoc) = 2
  /\ Len(inv.infoTributaria[1].ruc) = 13

\* C28: after every createAndSignInvoice call that returned, the caller's
\* invoice carries the ambiente of the configuration, the ambiente element of
\* the returned document holds it, and character 24 of the returned access
\* key is it, whatever ambiente the invoice carried before.
C28_ConfiguredAmbienteInDocumentAndKey ==
  Returned =>
    /\ invoice.infoTributaria[1].ambiente = config.ambiente
    /\ TextOf(call.signedXml[1], "ambiente") = config.ambiente
    /\ <<call.accessKey[24]>> = config.ambiente

\* the same for the invoices whose date, document type and tax ID have their
\* fixed widths
C28_HoldsForFixedWidthFields ==
  (Returned /\ EnvironmentAt24(invoice)) =>
    /\ invoice.infoTributaria[1].ambiente = config.ambiente
    /\ TextOf(call.signedXml[1], "ambiente") = config.ambiente
    /\ <<call.accessKey[24]>> = config.ambiente

\* no step of a createAndSignInvoice call changes the caller's invoice other
\* than by giving infoTributaria.ambiente the ambiente of the configuration
C28_OnlyAmbienteOverwritten ==
  [][ \/ invoice' = invoice
      \/ /\ call.pc = "idle" /\ call'.pc # "idle"
         /\ Present(invoice.infoTributaria)
         /\ invoice' = [invoice EXCEPT
                          !.infoTributaria =
                             <<[invoice.infoTributaria[1]
                                  EXCEPT !.ambiente = config.ambiente]>>] ]_vars

\* sendInvoice and authorizeInvoice call the services with the ambiente of
\* the configuration, and their request goes to the endpoint of that ambiente
C28_ServicesCalledWithConfiguredAmbiente ==
  remote.by \in {"sendInvoice", "authorizeInvoice"} =>
    /\ remote.ambiente = StringArgument(config.ambiente)
    /\ invoice.infoTributaria[1].ambiente = config.ambiente
    /\ Len(requests) = 1
    /\ requests[1].endpoint \in
         { IF config.ambiente = <<"1">> THEN receptionEndpoints.pruebas
           ELSE receptionEndpoints.produccion,
           IF config.ambiente = <<"1">> THEN authorizationEndpoints.pruebas
           ELSE authorizationEndpoints.produccion }

\* a call returned a key whose character 24 is not the ambiente: the tax ID
\* has 12 characters and the secuencial 10
C28_AmbienteNotAt24 ==
  /\ Returned
  /\ Len(call.accessKey) = 49
  /\ <<call.accessKey[24]>> # config.ambiente
  /\ <<call.accessKey[23]>> = config.ambiente
  /\ Len(invoice.infoTributaria[1].ruc) = 12

\* a call returned for an invoice that carried another ambiente than the
\* configuration's
C28_CallerAmbienteReplaced ==
  /\ Returned /\ EnvironmentAt24(invoice)
  /\ genResult.ok
  /\ TextOf(genResult.xml[1], "ambiente") # config.ambiente
  /\ TextOf(call.signedXml[1], "ambiente") = config.ambiente
  /\ <<call.accessKey[24]>> = config.ambiente

\* sendInvoice has sent its request for a configuration of ambiente 2
C28_SentToProduction ==
  /\ remote.by = "sendInvoice" /\ config.ambiente = <<"2">>
  /\ requests[1].endpoint = receptionEndpoints.produccion

\* the ambiente argument of the call is the string '1' and nothing else
AmbienteIsStringOne == remote.ambiente.type = "string" /\ remote.ambiente.str = <<"1">>

\* C29: a sendSignedXml or checkAuthorization call, direct or through the
\* OpenFactura instance, has issued one HTTP request from its start to its
\* end, however it ended; the request went to the test endpoint of its
\* service when the ambiente argument is exactly the string '1', and to the
\* production endpoint of its service for any other argument.
C29_TestEndpointOnlyForStringOne ==
  /\ remote.pc = "idle" => requests = <<>>
  /\ remote.pc # "idle" =>
       /\ Len(requests) = 1
       /\ remote.fn = "sendSignedXml" =>
            requests[1].endpoint =
              IF AmbienteIsStringOne
              THEN "https://celcer.sri.gob.ec/comprobantes-electronicos-ws/RecepcionComprobantesOffline?wsdl"
              ELSE "https://cel.sri.gob.ec/comprobantes-electronicos-ws/RecepcionComprobantesOffline?wsdl"
       /\ remote.fn = "checkAuthorization" =>
            requests[1].endpoint =
              IF AmbienteIsStringOne
              THEN "https://celcer.sri.gob.ec/comprobantes-electronicos-ws/AutorizacionComprobantesOffline?wsdl"
              ELSE "https://cel.sri.gob.ec/comprobantes-electronicos-ws/AutorizacionComprobantesOffline?wsdl"

\* a call given the number 1 sent its request to production, failed and ended
\* with that one request
C29_NumberOneSentToProduction ==
  /\ remote.pc = "done" /\ ~remote.ok
  /\ remote.ambiente.type = "number" /\ remote.ambiente.str = <<"1">>
  /\ Len(requests) = 1
  /\ requests[1].endpoint = authorizationEndpoints.produccion

\* a call given the string '1' sent its request to the test endpoint
C29_StringOneSentToTest ==
  /\ remote.pc = "done" /\ remote.fn = "sendSignedXml" /\ AmbienteIsStringOne
  /\ requests = <<ReceptionRequest(remote.argument, remote.ambiente)>>
  /\ requests[1].endpoint = receptionEndpoints.pruebas

\* a call given no ambiente sent its request to production
C29_UndefinedSentToProduction ==
  /\ remote.pc = "post" /\ remote.ambiente = NoArgument
  /\ requests[1].endpoint = receptionEndpoints.produccion

=============================================================================
